---- MODULE Spec2Model ----
(***************************************************************************)
(* A model of svg-nd-rs: the interval / bounding-box algebra, the Svg      *)
(* construction stack, the bottom-up finalize pass and the ElementIter     *)
(* event iterator.                                                         *)
(*                                                                         *)
(* Owned Rust values are kept in an arena: `heap` is a sequence of element *)
(* records, an element is named by its index, and a Vec<SvgElement> is a   *)
(* sequence of indices.  Moving a value moves its index.  f64 coordinates  *)
(* are modelled by integers (no NaN, no rounding).                         *)
(***************************************************************************)
EXTENDS Integers, Sequences, FiniteSets, TLC

VARIABLES
    heap,         \* arena of SvgElement values
    stack,        \* Svg.stack
    contents,     \* Svg.contents
    definitions,  \* Svg.definitions
    bbox,         \* Svg.bbox
    config,       \* Svg.config
    taken,        \* elements handed back to the caller by stack_pop
    phase,        \* which of the Svg calls have been made so far
    panicked,     \* "" or the operation that aborted the program
    state,        \* ElementIter.state
    elements,     \* ElementIter.elements: <<element, child index>> pairs
    iterating,    \* an ElementIter has been constructed
    ret,          \* what the last next() returned
    steps,        \* handler invocations made by the last next() call
    events,       \* every Some(event) returned so far, in order
    flog,         \* record of the steps of every SvgElement::finalize call
    alg           \* operands and result of the last algebra operation

svgvars  == <<heap, stack, contents, definitions, bbox, config, taken, phase>>
itervars == <<state, elements, iterating, ret, steps, events>>
vars     == <<heap, stack, contents, definitions, bbox, config, taken, phase,
              panicked, state, elements, iterating, ret, steps, events,
              flog, alg>>

(***************************************************************************)
(* Bounds                                                                  *)
(***************************************************************************)
MaxCoord == 2
MaxNodes == 2
MaxTree == 4

(***************************************************************************)
(* Range                                                                   *)
(***************************************************************************)
Range_new(min, max) == [min |-> min, max |-> max]

Range_none == [min |-> 0, max |-> -1]

Range_is_none(r) == r.min > r.max

Range_include(r, x) ==
    IF Range_is_none(r) THEN [min |-> x, max |-> x]
    ELSE [min |-> IF x < r.min THEN x ELSE r.min,
          max |-> IF x > r.max THEN x ELSE r.max]

Range_union(self, other) ==
    IF Range_is_none(other) THEN self
    ELSE IF Range_is_none(self) THEN [min |-> other.min, max |-> other.max]
    ELSE [min |-> IF other.min < self.min THEN other.min ELSE self.min,
          max |-> IF other.max > self.max THEN other.max ELSE self.max]

Range_intersect(self, other) ==
    IF Range_is_none(other) THEN self
    ELSE IF Range_is_none(self) THEN [min |-> other.min, max |-> other.max]
    ELSE [min |-> IF other.min > self.min THEN other.min ELSE self.min,
          max |-> IF other.max < self.max THEN other.max ELSE self.max]

Range_enlarge(self, value) ==
    IF ~Range_is_none(self)
    THEN [min |-> self.min - value, max |-> self.max + value]
    ELSE self

Range_reduce_as_enlarge(self, value) ==
    IF ~Range_is_none(self)
    THEN [min |-> self.min - value, max |-> self.max + value]
    ELSE self

Range_reduce(self, value) ==
    IF ~Range_is_none(self)
    THEN [min |-> self.min + value, max |-> self.max - value]
    ELSE self

\* Add<f64>, AddAssign<f64>, Sub<f64>, SubAssign<f64> for Range
Range_add(self, scale) == [min |-> self.min + scale, max |-> self.max + scale]

Range_add_assign(self, delta) == [min |-> self.min + delta, max |-> self.max + delta]

Range_sub(self, scale) == [min |-> self.min - scale, max |-> self.max - scale]

Range_sub_assign(self, delta) == [min |-> self.min - delta, max |-> self.max - delta]

\* Mul<f64> for Range
Range_mul(self, scale) ==
    IF scale < 0
    THEN [min |-> self.max * scale, max |-> self.min * scale]
    ELSE [min |-> self.min * scale, max |-> self.max * scale]

\* MulAssign<f64> for Range
Range_mul_assign(self, scale) ==
    [min |-> self.min * scale, max |-> self.max * scale]

\* f64 division, for the operands whose quotient is a whole number
Quot(a, k) == IF k < 0 THEN -(a \div (-k)) ELSE a \div k

Divides(k, a) == k # 0 /\ a % (IF k < 0 THEN -k ELSE k) = 0

\* Div<f64> for Range
Range_div(self, scale) ==
    IF scale < 0
    THEN [min |-> Quot(self.max, scale), max |-> Quot(self.min, scale)]
    ELSE [min |-> Quot(self.min, scale), max |-> Quot(self.max, scale)]

\* DivAssign<f64> for Range
Range_div_assign(self, scale) ==
    [min |-> Quot(self.min, scale), max |-> Quot(self.max, scale)]

(***************************************************************************)
(* BBox                                                                    *)
(***************************************************************************)
BBox_none == [x |-> Range_none, y |-> Range_none]

BBox_default == [x |-> Range_none, y |-> Range_none]

BBox_is_none(b) == Range_is_none(b.x) \/ Range_is_none(b.y)

BBox_union_keep_self(self, other) ==
    IF BBox_is_none(other) THEN self
    ELSE IF BBox_is_none(self) THEN self
    ELSE [x |-> Range_union(self.x, other.x), y |-> Range_union(self.y, other.y)]

BBox_union(self, other) ==
    IF BBox_is_none(other) THEN self
    ELSE IF BBox_is_none(self) THEN other
    ELSE [x |-> Range_union(self.x, other.x), y |-> Range_union(self.y, other.y)]

BBox_intersect(self, other) ==
    IF BBox_is_none(other) THEN other
    ELSE IF BBox_is_none(self) THEN self
    ELSE [x |-> Range_intersect(self.x, other.x),
          y |-> Range_intersect(self.y, other.y)]

\* The values returned by Range::enlarge are dropped: self.x and self.y
\* are Copy, and the method takes them by value.
BBox_enlarge(self, value) ==
    LET dropped_x == Range_enlarge(self.x, value)
        dropped_y == Range_enlarge(self.y, value)
    IN  self

BBox_reduce(self, value) ==
    LET dropped_x == Range_enlarge(self.x, value)
        dropped_y == Range_enlarge(self.y, value)
    IN  self

BBox_expand_no_scale(self, other, scale) ==
    [x |-> Range_new(self.x.min - other[1], self.x.max + other[3]),
     y |-> Range_new(self.y.min - other[2], self.y.max + other[4])]

BBox_expand(self, other, scale) ==
    [x |-> Range_new(self.x.min - scale * other[1], self.x.max + scale * other[3]),
     y |-> Range_new(self.y.min - scale * other[2], self.y.max + scale * other[4])]

BBox_shrink(self, other, scale) == BBox_expand(self, other, -scale)

\* Add<Point>, AddAssign<Point>, Sub<Point>, SubAssign<Point> for BBox
BBox_add(self, dxy) ==
    [x |-> Range_add_assign(self.x, dxy[1]), y |-> Range_add_assign(self.y, dxy[2])]

BBox_add_assign(self, dxy) ==
    [x |-> Range_add_assign(self.x, dxy[1]), y |-> Range_add_assign(self.y, dxy[2])]

BBox_sub(self, dxy) ==
    [x |-> Range_sub_assign(self.x, dxy[1]), y |-> Range_sub_assign(self.y, dxy[2])]

BBox_sub_assign(self, dxy) ==
    [x |-> Range_sub_assign(self.x, dxy[1]), y |-> Range_sub_assign(self.y, dxy[2])]

\* Mul<f64> and MulAssign<f64> for BBox both use Range's *=
BBox_mul(self, scale) ==
    [x |-> Range_mul_assign(self.x, scale), y |-> Range_mul_assign(self.y, scale)]

BBox_mul_assign(self, scale) ==
    [x |-> Range_mul_assign(self.x, scale), y |-> Range_mul_assign(self.y, scale)]

\* Div<f64> and DivAssign<f64> for BBox both use Range's /=
BBox_div(self, scale) ==
    [x |-> Range_div_assign(self.x, scale), y |-> Range_div_assign(self.y, scale)]

BBox_div_assign(self, scale) ==
    [x |-> Range_div_assign(self.x, scale), y |-> Range_div_assign(self.y, scale)]

(***************************************************************************)
(* The algebra operations, applied to operands drawn from a bounded set.   *)
(* The Range operations act on the x ranges of the two operand boxes.      *)
(***************************************************************************)
RangeVals == {Range_new(a, b) : a \in 0..MaxCoord, b \in -1..MaxCoord}

BBoxVals == {[x |-> rx, y |-> ry] : rx \in RangeVals, ry \in RangeVals}

NoAlg == [op |-> "none"]

AlgInit ==
    \E a \in BBoxVals, b \in BBoxVals :
        alg = [op |-> "operands", a |-> a, b |-> b]

AlgApply(name, r) ==
    /\ alg.op = "operands"
    /\ alg' = [op |-> name, a |-> alg.a, b |-> alg.b, r |-> r]

DoRangeUnion     == AlgApply("Range::union", Range_union(alg.a.x, alg.b.x))
DoRangeIntersect == AlgApply("Range::intersect", Range_intersect(alg.a.x, alg.b.x))
DoBBoxUnion      == AlgApply("BBox::union", BBox_union(alg.a, alg.b))
DoBBoxIntersect  == AlgApply("BBox::intersect", BBox_intersect(alg.a, alg.b))


(***************************************************************************)
(* The operations that take a box (or its x range) and a scalar.  A second *)
(* operation applied to the result of a first keeps the first result in    *)
(* `mid`.                                                                  *)
(***************************************************************************)
Scalars == (-MaxCoord)..MaxCoord

Deltas == [1..4 -> 0..1]

ScalInit ==
    \E a \in BBoxVals, v \in Scalars :
        alg = [op |-> "operand", a |-> a, v |-> v]

ScalApply(name, r) ==
    /\ alg.op = "operand"
    /\ alg' = [op |-> name, a |-> alg.a, v |-> alg.v, r |-> r]

ScalThen(first, name, r) ==
    /\ alg.op = first
    /\ alg' = [op |-> name, a |-> alg.a, v |-> alg.v, mid |-> alg.r, r |-> r]

DoRangeEnlarge == ScalApply("Range::enlarge", Range_enlarge(alg.a.x, alg.v))
DoRangeReduce  == ScalApply("Range::reduce", Range_reduce(alg.a.x, alg.v))
DoRangeEnlargeReduce ==
    ScalThen("Range::enlarge", "Range::enlarge.reduce", Range_reduce(alg.r, alg.v))
DoBBoxEnlarge  == ScalApply("BBox::enlarge", BBox_enlarge(alg.a, alg.v))
DoBBoxReduce   == ScalApply("BBox::reduce", BBox_reduce(alg.a, alg.v))
DoBBoxEnlargeReduce ==
    ScalThen("BBox::enlarge", "BBox::enlarge.reduce", BBox_reduce(alg.r, alg.v))

DivOperand(r, k) == Divides(k, r.min) /\ Divides(k, r.max)

DoRangeMul == ScalApply("Range::mul", Range_mul(alg.a.x, alg.v))
DoRangeMulAssign == ScalApply("Range::mul_assign", Range_mul_assign(alg.a.x, alg.v))
DoRangeDiv ==
    /\ DivOperand(alg.a.x, alg.v)
    /\ ScalApply("Range::div", Range_div(alg.a.x, alg.v))
DoRangeDivAssign ==
    /\ DivOperand(alg.a.x, alg.v)
    /\ ScalApply("Range::div_assign", Range_div_assign(alg.a.x, alg.v))
DoBBoxMul == ScalApply("BBox::mul", BBox_mul(alg.a, alg.v))
DoBBoxMulAssign == ScalApply("BBox::mul_assign", BBox_mul_assign(alg.a, alg.v))
DoBBoxDiv ==
    /\ DivOperand(alg.a.x, alg.v) /\ DivOperand(alg.a.y, alg.v)
    /\ ScalApply("BBox::div", BBox_div(alg.a, alg.v))
DoBBoxDivAssign ==
    /\ DivOperand(alg.a.x, alg.v) /\ DivOperand(alg.a.y, alg.v)
    /\ ScalApply("BBox::div_assign", BBox_div_assign(alg.a, alg.v))

DoRangeAdd == ScalApply("Range::add", Range_add(alg.a.x, alg.v))
DoRangeAddAssign == ScalApply("Range::add_assign", Range_add_assign(alg.a.x, alg.v))
DoRangeSub == ScalApply("Range::sub", Range_sub(alg.a.x, alg.v))
DoRangeSubAssign == ScalApply("Range::sub_assign", Range_sub_assign(alg.a.x, alg.v))

\* the point (alg.v, dy) added to or taken from a box
ScalApplyPoint(name, dy, r) ==
    /\ alg.op = "operand"
    /\ alg' = [op |-> name, a |-> alg.a, v |-> alg.v, dxy |-> <<alg.v, dy>>, r |-> r]

DoBBoxAdd ==
    \E dy \in Scalars : ScalApplyPoint("BBox::add", dy, BBox_add(alg.a, <<alg.v, dy>>))
DoBBoxAddAssign ==
    \E dy \in Scalars :
        ScalApplyPoint("BBox::add_assign", dy, BBox_add_assign(alg.a, <<alg.v, dy>>))
DoBBoxSub ==
    \E dy \in Scalars : ScalApplyPoint("BBox::sub", dy, BBox_sub(alg.a, <<alg.v, dy>>))
DoBBoxSubAssign ==
    \E dy \in Scalars :
        ScalApplyPoint("BBox::sub_assign", dy, BBox_sub_assign(alg.a, <<alg.v, dy>>))

DoBBoxExpand ==
    \E d \in Deltas :
        /\ alg.op = "operand"
        /\ alg' = [op |-> "BBox::expand", a |-> alg.a, v |-> alg.v, d |-> d,
                   r |-> BBox_expand(alg.a, d, alg.v)]
DoBBoxShrink ==
    \E d \in Deltas :
        /\ alg.op = "operand"
        /\ alg' = [op |-> "BBox::shrink", a |-> alg.a, v |-> alg.v, d |-> d,
                   r |-> BBox_shrink(alg.a, d, alg.v)]
DoBBoxExpandShrink ==
    /\ alg.op = "BBox::expand"
    /\ alg' = [op |-> "BBox::expand.shrink", a |-> alg.a, v |-> alg.v,
               d |-> alg.d, mid |-> alg.r,
               r |-> BBox_shrink(alg.r, alg.d, alg.v)]


(***************************************************************************)
(* Point and Transform.  Rotations are whole multiples of 90 degrees, so   *)
(* sin and cos are exact.                                                  *)
(***************************************************************************)
CosDeg(d) ==
    LET q == (d \div 90) % 4 IN
    IF q = 0 THEN 1 ELSE IF q = 2 THEN -1 ELSE 0

SinDeg(d) ==
    LET q == (d \div 90) % 4 IN
    IF q = 1 THEN 1 ELSE IF q = 3 THEN -1 ELSE 0

Transform_of_trs(translation, rotation, scale) ==
    [translation |-> translation, rotation |-> rotation, scale |-> scale]

Transform_default == Transform_of_trs(<<0, 0>>, 0, 1)

Transform_to_matrix(t) ==
    LET sc == t.scale
        s  == SinDeg(t.rotation)
        c  == CosDeg(t.rotation)
    IN  <<sc * c, (-sc) * s, t.translation[1],
          sc * s, sc * c, t.translation[2],
          0, 0, 1>>

Transform_apply(t, pt) ==
    LET m == Transform_to_matrix(t) IN
    <<m[1] * pt[1] + m[2] * pt[2] + m[3], m[4] * pt[1] + m[5] * pt[2] + m[6]>>

\* The attribute string, as the list of its "name(args) " pieces.
Transform_as_svg_attribute_string(t) ==
    (IF t.translation[1] # 0 \/ t.translation[2] # 0
        THEN <<[f |-> "translate", args |-> t.translation]>> ELSE <<>>)
    \o (IF t.rotation # 0 THEN <<[f |-> "rotate", args |-> <<t.rotation>>]>> ELSE <<>>)
    \o (IF t.scale # 1 THEN <<[f |-> "scale", args |-> <<t.scale>>]>> ELSE <<>>)

Transform_is_identity(t) ==
    t.rotation = 0 /\ t.scale = 1 /\ t.translation = <<0, 0>>

\* f64::sqrt: exact on the squares, a term otherwise
Sqrt(n) ==
    IF \E k \in 0..n : k * k = n
    THEN CHOOSE k \in 0..n : k * k = n
    ELSE <<"sqrt", n>>

Atan2Deg_swapped(y, x) ==
    IF x = 0 /\ y >= 0 THEN 0
    ELSE IF x = 0 THEN 180
    ELSE IF y = 0 /\ x > 0 THEN 90
    ELSE IF y = 0 THEN -90
    ELSE <<"atan2", x, y>>

\* f64::atan2(y, x).to_degrees(): exact on the axes and the diagonals, a
\* term otherwise.  The result lies in (-180, 180].
Atan2Deg(y, x) ==
    IF y = 0 /\ x >= 0 THEN 0
    ELSE IF y = 0 THEN 180
    ELSE IF x = 0 /\ y > 0 THEN 90
    ELSE IF x = 0 THEN -90
    ELSE IF y = x /\ x > 0 THEN 45
    ELSE IF y = -x /\ x > 0 THEN -45
    ELSE IF y = -x THEN 135
    ELSE IF y = x THEN -135
    ELSE <<"atan2", y, x>>

Err(reason) ==
    [ok |-> FALSE, err |-> "InvalidTransformationMatrix", reason |-> reason]

Ok(value) == [ok |-> TRUE, value |-> value]

Transform_of_matrix_no_skew_check(matrix) ==
    IF Len(matrix) # 9 THEN Err("matrix was not 3-by-3")
    ELSE IF ~(matrix[9] = 1 /\ matrix[8] = 0 /\ matrix[7] = 0)
    THEN Err("bottom row must be 0, 0, 1")
    ELSE
    LET sc2 == matrix[1] * matrix[5] - matrix[2] * matrix[4] IN
    IF sc2 < 0 THEN Err("determinant (scale squared) is negative")
    ELSE Ok(Transform_of_trs(<<matrix[3], matrix[6]>>,
                             Atan2Deg(matrix[4], matrix[5]), Sqrt(sc2)))

\* Matrix entries are whole numbers, so |skew| > 1.0E-6 is skew # 0 and
\* sc2 < -1.0E-9 is sc2 < 0; the clamp of a marginally negative sc2 to a
\* scale of 0 cannot arise.
Transform_of_matrix(matrix) ==
    IF Len(matrix) # 9 THEN Err("matrix was not 3-by-3")
    ELSE IF ~(matrix[9] = 1 /\ matrix[8] = 0 /\ matrix[7] = 0)
    THEN Err("bottom row must be 0, 0, 1")
    ELSE
    LET dx   == matrix[3]
        dy   == matrix[6]
        skew == matrix[1] * matrix[2] + matrix[5] * matrix[4]
        sc2  == matrix[1] * matrix[5] - matrix[2] * matrix[4]
    IN
    IF skew # 0
    THEN Err("rotation portion (top left 4 values) represent a skew not a rotation")
    ELSE IF sc2 < 0 THEN Err("determinant (scale squared) is negative")
    ELSE Ok(Transform_of_trs(<<dx, dy>>, Atan2Deg(matrix[4], matrix[5]), Sqrt(sc2)))

\* Point is Copy and rotate_around takes it by value and returns the rotated
\* point (as polygon.rs uses it: p = p.rotate_around(..)), so the statement
\* dxy.rotate_around(&Point::zero(), self.rotation, 0, 1); leaves dxy as it
\* was.
Transform_apply_to_transform(self, other) ==
    LET dxy0 == other.translation
        dxy  == <<dxy0[1] * self.scale + self.translation[1],
                  dxy0[2] * self.scale + self.translation[2]>>
    IN  Transform_of_trs(dxy, self.rotation + other.rotation,
                         self.scale * other.scale)

(***************************************************************************)
(* The Transform operations, applied to transforms and matrices drawn from *)
(* bounded sets.                                                           *)
(***************************************************************************)
Translations == {<<0, 0>>, <<1, 0>>, <<0, 1>>, <<-1, -1>>, <<1, 2>>}

Rotations == {-90, 0, 90, 180, 270, 360}

Transforms ==
    {Transform_of_trs(d, r, sc) :
        d \in Translations, r \in Rotations, sc \in 1..MaxCoord}

Entries == (-1)..MaxCoord

Bottoms == {<<0, 0, 1>>, <<1, 0, 1>>, <<0, 1, 1>>, <<0, 0, 0>>, <<0, 0, 2>>}

Matrices9 ==
    {<<a, b, d[1], c, e, d[2]>> \o bottom :
        a \in Entries, b \in Entries, c \in Entries, e \in Entries,
        d \in {<<0, 0>>, <<1, -1>>}, bottom \in Bottoms}

Matrices ==
    Matrices9
    \cup {SubSeq(m, 1, 8) : m \in {n \in Matrices9 : n[9] = 1 /\ n[3] = 0}}
    \cup {Append(m, 1) : m \in {n \in Matrices9 : n[9] = 1 /\ n[3] = 0}}

XfInit ==
    \/ \E t \in Transforms, u \in Transforms :
            alg = [op |-> "transforms", t |-> t, u |-> u]
    \/ \E m \in Matrices : alg = [op |-> "matrix", m |-> m]

DoToMatrix ==
    /\ alg.op = "transforms"
    /\ alg' = [op |-> "to_matrix", t |-> alg.t, r |-> Transform_to_matrix(alg.t)]

DoOfMatrixOfToMatrix ==
    /\ alg.op = "to_matrix"
    /\ alg' = [op |-> "to_matrix.of_matrix", t |-> alg.t, mid |-> alg.r,
               r |-> Transform_of_matrix(alg.r)]

DoOfMatrix ==
    /\ alg.op = "matrix"
    /\ alg' = [op |-> "of_matrix", m |-> alg.m, r |-> Transform_of_matrix(alg.m)]

DoApplyToTransform ==
    /\ alg.op = "transforms"
    /\ alg' = [op |-> "apply_to_transform", t |-> alg.t, u |-> alg.u,
               r |-> Transform_apply_to_transform(alg.t, alg.u)]

BBox_include(b, p) ==
    [x |-> Range_include(b.x, p[1]), y |-> Range_include(b.y, p[2])]

\* The box of the four transformed corners; an empty box stays as it is.
BBox_transform(b, t) ==
    IF BBox_is_none(b) THEN b
    ELSE LET p0 == Transform_apply(t, <<b.x.min, b.y.min>>)
             p1 == Transform_apply(t, <<b.x.max, b.y.min>>)
             p2 == Transform_apply(t, <<b.x.min, b.y.max>>)
             p3 == Transform_apply(t, <<b.x.max, b.y.max>>)
         IN  BBox_include(BBox_include(BBox_include(BBox_include(BBox_none, p0), p1), p2), p3)

(***************************************************************************)
(* Paths.  A path is a sequence of straight Bezier segments.               *)
(***************************************************************************)
Bezier_line(p0, p1) == [p0 |-> p0, p1 |-> p1]

\* Polygon::new_rect(w, h) + c, as_paths(): the four corners of the box,
\* vertex i at angle delta * (0.5 - i), joined by lines.  With h = 0 the
\* eccentricity w / h is not a number and neither are the corners; that
\* path is modelled as having no segments.
SvgPath_new_box(b) ==
    IF Range_is_none(b.y) \/ b.y.min = b.y.max THEN <<>>
    ELSE LET c0 == <<b.x.max, b.y.max>>
             c1 == <<b.x.max, b.y.min>>
             c2 == <<b.x.min, b.y.min>>
             c3 == <<b.x.min, b.y.max>>
         IN  <<Bezier_line(c0, c1), Bezier_line(c1, c2),
               Bezier_line(c2, c3), Bezier_line(c3, c0)>>

RECURSIVE IncludeBeziers(_, _)
IncludeBeziers(b, path) ==
    IF path = <<>> THEN b
    ELSE IncludeBeziers(BBox_include(BBox_include(b, Head(path).p0), Head(path).p1),
                        Tail(path))

SvgPath_bbox(e) == IncludeBeziers(BBox_none, e.path)

RECURSIVE PathData(_)
PathData(path) ==
    IF path = <<>> THEN <<>>
    ELSE <<<<"L", Head(path).p1>>>> \o PathData(Tail(path))

BezierPath_get_pt0(path) == IF path = <<>> THEN <<0, 0>> ELSE path[1].p0

(***************************************************************************)
(* BezierPath and Polygon.  A point is <<x, y>> where the arithmetic is    *)
(* exact, and otherwise a longer tuple naming how it was computed.  A      *)
(* Bezier is a line when it has just the two end points p0 and p1.         *)
(***************************************************************************)
IsXY(p) == Len(p) = 2

Bezier_is_line(b) == DOMAIN b = {"p0", "p1"}

\* For a line the tangent is p1 - p0 at every t.
Bezier_tangent_at(b) ==
    IF IsXY(b.p0) /\ IsXY(b.p1)
    THEN <<b.p1[1] - b.p0[1], b.p1[2] - b.p0[2]>>
    ELSE <<"tangent", b.p0, b.p1>>

Neg(v) == IF IsXY(v) THEN <<-v[1], -v[2]>> ELSE <<"neg", v, 0, 0>>

Sgn(x) == IF x > 0 THEN 1 ELSE IF x < 0 THEN -1 ELSE 0

AxisAligned(v) == IsXY(v) /\ (v[1] = 0) # (v[2] = 0)

\* The arc of radius `rounding` that meets both lines of a corner; v0 and
\* v1 point along the lines into the corner.  At a right angle the arc
\* leaves each line at distance `rounding` from the corner.
Bezier_of_round_corner(corner, v0, v1, rounding) ==
    IF IsXY(corner) /\ AxisAligned(v0) /\ AxisAligned(v1)
       /\ v0[1] * v1[1] + v0[2] * v1[2] = 0
    THEN [p0 |-> <<corner[1] - rounding * Sgn(v0[1]),
                   corner[2] - rounding * Sgn(v0[2])>>,
          p1 |-> <<corner[1] - rounding * Sgn(v1[1]),
                   corner[2] - rounding * Sgn(v1[2])>>,
          corner |-> corner, rounding |-> rounding]
    ELSE [p0 |-> <<"round", corner, v0, v1, rounding, 0>>,
          p1 |-> <<"round", corner, v0, v1, rounding, 1>>,
          corner |-> corner, rounding |-> rounding]

\* Vec::insert(index, x), index counted from 0
Insert(v, index, x) ==
    SubSeq(v, 1, index) \o <<x>> \o SubSeq(v, index + 1, Len(v))

RoundStep_append(els, n, i, rounding) ==
    LET i_1 == (i + 1) % n
        e0  == els[i + 1]
        e1  == els[i_1 + 1]
    IN  IF Bezier_is_line(e0) /\ Bezier_is_line(e1)
        THEN LET bezier == Bezier_of_round_corner(e0.p1, Bezier_tangent_at(e0),
                                                  Neg(Bezier_tangent_at(e1)),
                                                  rounding)
             IN  [elements |-> Append(els, bezier), n |-> n + 1]
        ELSE [elements |-> els, n |-> n]

\* One turn of the loop of BezierPath::round; indices count from 0.
RoundStep(els, n, i, rounding) ==
    LET i_1 == (i + 1) % n
        e0  == els[i + 1]
        e1  == els[i_1 + 1]
    IN  IF Bezier_is_line(e0) /\ Bezier_is_line(e1)
        THEN LET corner == e0.p1
                 v0     == Bezier_tangent_at(e0)
                 v1     == Neg(Bezier_tangent_at(e1))
                 bezier == Bezier_of_round_corner(corner, v0, v1, rounding)
                 np00   == e0.p0
                 np01   == bezier.p0
                 np10   == bezier.p1
                 np11   == e1.p1
                 els1   == [els EXCEPT ![i + 1] = Bezier_line(np00, np01)]
                 els2   == [els1 EXCEPT ![i_1 + 1] = Bezier_line(np10, np11)]
             IN  [elements |-> Insert(els2, i + 1, bezier), n |-> n + 1]
        ELSE [elements |-> els, n |-> n]

RECURSIVE RoundLoop(_, _, _, _)
RoundLoop(els, n, i, rounding) ==
    LET r == RoundStep(els, n, i, rounding) IN
    IF i = 0 THEN r.elements
    ELSE RoundLoop(r.elements, r.n, i - 1, rounding)

BezierPath_round_wrap(els, rounding, closed) ==
    LET n == Len(els) IN
    IF n < 2 \/ rounding = 0 THEN els
    ELSE RoundLoop(els, n, n - 1, rounding)

BezierPath_round(els, rounding, closed) ==
    LET n == Len(els) IN
    IF n < 2 \/ rounding = 0 THEN els
    ELSE RoundLoop(els, n, IF closed THEN n - 1 ELSE n - 2, rounding)

RECURSIVE OfPointsLines(_, _)
OfPointsLines(corners, i) ==
    LET n == Len(corners) IN
    IF i >= n THEN <<>>
    ELSE <<Bezier_line(corners[(i % n) + 1], corners[((i + 1) % n) + 1])>>
         \o OfPointsLines(corners, i + 1)

BezierPath_of_points_open(corners, rounding) ==
    LET lines == OfPointsLines(corners, 0)
    IN  BezierPath_round(SubSeq(lines, 1, Len(lines) - 1), rounding, TRUE)

BezierPath_of_points(corners, rounding) ==
    BezierPath_round(OfPointsLines(corners, 0), rounding, TRUE)

\* Bezier::arc(angle, radius, center, unit, normal, rotate): a curve, kept
\* as its arguments.
Bezier_arc(angle, radius, center, unit, normal, rotate) ==
    [p0 |-> <<"arc", radius, center, unit, normal, rotate, 0>>,
     p1 |-> <<"arc", radius, center, unit, normal, rotate, 1>>,
     arc |-> angle]

BezierPath_of_ellipse(origin, radius, eccentricity, degrees) ==
    LET x  == <<eccentricity, 0>>
        y  == <<0, 1>>
    IN  <<Bezier_arc(90, radius, origin, x, y, degrees),
          Bezier_arc(90, radius, origin, y, Neg(x), degrees),
          Bezier_arc(90, radius, origin, Neg(x), Neg(y), degrees),
          Bezier_arc(90, radius, origin, Neg(y), x, degrees)>>

Polygon_default ==
    [center |-> <<0, 0>>, vertices |-> 0, rotation |-> 0, rounding |-> 0,
     size |-> 0, eccentricity |-> 1, stellate_size |-> 0]

\* [radius, 0] turned by `halves` half-steps of delta_angle / 2, where
\* delta_angle is 360 / vertices degrees, its x scaled by the eccentricity,
\* turned by the rotation and moved by the center.
PolygonPoint(poly, radius, halves) ==
    <<"corner", radius, halves, poly.vertices, poly.eccentricity,
      poly.rotation, poly.center>>

RECURSIVE PolygonPoints(_, _)
PolygonPoints(poly, i) ==
    IF i >= poly.vertices THEN <<>>
    ELSE <<PolygonPoint(poly, poly.size, 1 - 2 * i)>>
         \o (IF poly.stellate_size # 0
             THEN <<PolygonPoint(poly, poly.stellate_size, 0 - 2 * i)>>
             ELSE <<>>)
         \o PolygonPoints(poly, i + 1)

Polygon_get_points(poly) == PolygonPoints(poly, 0)

Polygon_as_paths_unrounded(poly) ==
    IF poly.vertices = 0
    THEN BezierPath_of_ellipse(<<0, 0>>, poly.size, poly.eccentricity, poly.rotation)
    ELSE IF poly.vertices = 1 THEN <<>>
    ELSE BezierPath_of_points(Polygon_get_points(poly), 0)

Polygon_as_paths(poly) ==
    IF poly.vertices = 0
    THEN BezierPath_of_ellipse(<<0, 0>>, poly.size, poly.eccentricity, poly.rotation)
    ELSE IF poly.vertices = 1 THEN <<>>
    ELSE BezierPath_of_points(Polygon_get_points(poly), poly.rounding)

(***************************************************************************)
(* round and as_paths, applied to paths and polygons of bounded sets.      *)
(* Lengths are in tenths: a side of 10 with a rounding of 1 is the unit    *)
(* square rounded by 0.1.                                                  *)
(***************************************************************************)
MaxSides == 4

Sides == {10, 10 + MaxCoord}

Roundings == 0..MaxCoord

RECURSIVE LinesThrough(_)
LinesThrough(pts) ==
    IF Len(pts) < 2 THEN <<>>
    ELSE <<Bezier_line(pts[1], pts[2])>> \o LinesThrough(Tail(pts))

\* The closed outlines: a there-and-back pair, a right triangle, a
\* rectangle and an L shape, each returning to its first point.
Outlines ==
    UNION {{ <<<<0, 0>>, <<w, 0>>, <<0, 0>>>>,
             <<<<0, 0>>, <<w, 0>>, <<0, h>>, <<0, 0>>>>,
             <<<<0, 0>>, <<w, 0>>, <<w, h>>, <<0, h>>, <<0, 0>>>>,
             <<<<0, 0>>, <<w, 0>>, <<w, 5>>, <<5, 5>>, <<5, h>>, <<0, h>>, <<0, 0>>>> }
           : w \in Sides, h \in Sides}

Polygons ==
    {[Polygon_default EXCEPT !.vertices = n, !.size = sz, !.stellate_size = st,
                             !.rounding = r] :
        n \in 0..MaxSides, sz \in {0, 10}, st \in {0, 4}, r \in {0, 1}}

PathInit ==
    \/ \E o \in Outlines, r \in Roundings, closed \in BOOLEAN :
            alg = [op |-> "path", path |-> LinesThrough(o), rounding |-> r,
                   closed |-> closed]
    \/ \E poly \in Polygons : alg = [op |-> "polygon", poly |-> poly]

DoRound ==
    /\ alg.op = "path"
    /\ alg' = [op |-> "round", path |-> alg.path, rounding |-> alg.rounding,
               closed |-> alg.closed,
               r |-> BezierPath_round(alg.path, alg.rounding, alg.closed)]

DoAsPaths ==
    /\ alg.op = "polygon"
    /\ alg' = [op |-> "as_paths", poly |-> alg.poly,
               r |-> Polygon_as_paths(alg.poly)]

\* Add<Point> for Polygon: self.center += dxy
Polygon_add(self, dxy) ==
    [self EXCEPT !.center = <<@[1] + dxy[1], @[2] + dxy[2]>>]

\* Sub<Point> for Polygon: self.center += dxy
Polygon_sub(self, dxy) ==
    [self EXCEPT !.center = <<@[1] + dxy[1], @[2] + dxy[2]>>]

Offsets == {<<dx, dy>> : dx \in (-MaxCoord)..MaxCoord, dy \in (-MaxCoord)..MaxCoord}

\* poly + d
DoPolygonAdd ==
    /\ alg.op = "polygon"
    /\ \E d \in Offsets :
        alg' = [op |-> "Polygon::add", poly |-> alg.poly, d |-> d,
                r |-> Polygon_add(alg.poly, d)]

\* (poly + d) - e
DoPolygonSub ==
    /\ alg.op = "Polygon::add"
    /\ \E e \in Offsets :
        alg' = [op |-> "Polygon::add.sub", poly |-> alg.poly, d |-> alg.d,
                mid |-> alg.r, e |-> e, r |-> Polygon_sub(alg.r, e)]

Attr(name, prefix, value) == [name |-> name, prefix |-> prefix, value |-> value]

SvgPath_push_attributes(e) ==
    <<Attr("d", "", <<<<"M", BezierPath_get_pt0(e.path)>>>> \o PathData(e.path)
                    \o (IF e.closed THEN <<<<"z">>>> ELSE <<>>))>>

GridSpacing == 10

RECURSIVE GridLines(_, _, _, _)
GridLines(i, last, cmd, b) ==
    IF i > last THEN <<>>
    ELSE <<<<cmd, i * GridSpacing, b>>>> \o GridLines(i + 1, last, cmd, b)

SvgGrid_push_attributes(e) ==
    LET xmin == e.gbox.x.min \div GridSpacing
        xmax == (e.gbox.x.max \div GridSpacing) + 1
        ymin == e.gbox.y.min \div GridSpacing
        ymax == (e.gbox.y.max \div GridSpacing) + 1
    IN  <<Attr("d", "",
            (IF xmax - xmin >= 2 THEN GridLines(xmin, xmax, "v", e.gbox.y) ELSE <<>>)
         \o (IF ymax - ymin >= 2 THEN GridLines(ymin, ymax, "h", e.gbox.x) ELSE <<>>))>>

(***************************************************************************)
(* SvgElement                                                              *)
(***************************************************************************)
\* made_by and outline_of are history only: who constructed the element and,
\* for a content rectangle, the element it outlines.
SvgElement_new(ele_type, path, closed, gbox, made_by) ==
    [ele_type   |-> ele_type,
     path       |-> path,
     closed     |-> closed,
     gbox       |-> gbox,
     attributes |-> <<>>,
     transform  |-> Transform_default,
     contents   |-> <<>>,
     characters |-> "",
     bbox       |-> BBox_default,
     made_by    |-> made_by,
     outline_of |-> 0]

SvgSvg_new == SvgElement_new("svg", <<>>, FALSE, BBox_none, "generate_diagram")

SvgGroup_new == SvgElement_new("g", <<>>, FALSE, BBox_none, "caller")

SvgPath_new_path(bp, closed, made_by) == SvgElement_new("path", bp, closed, BBox_none, made_by)

SvgGrid_new(b) == SvgElement_new("grid", <<>>, FALSE, b, "generate_diagram")

add_attribute(e, name, prefix, value) ==
    [e EXCEPT !.attributes = Append(@, Attr(name, prefix, value))]

\* SvgElementType::bbox of the element's payload
ele_type_bbox(e) ==
    IF e.ele_type = "path" THEN SvgPath_bbox(e)
    ELSE IF e.ele_type = "grid" THEN e.gbox
    ELSE BBox_none

\* SvgElementType::push_attributes of the element's payload
ele_type_push_attributes(e) ==
    IF e.ele_type = "path" THEN SvgPath_push_attributes(e)
    ELSE IF e.ele_type = "grid" THEN SvgGrid_push_attributes(e)
    ELSE <<>>

SvgElement_new_box(b, line_width, color) ==
    add_attribute(
        add_attribute(
            add_attribute(SvgPath_new_path(SvgPath_new_box(b), TRUE, "finalize"),
                          "fill", "", "none"),
            "stroke", "", color),
        "stroke-width", "", line_width)

SvgElement_new_grid(b, line_width, color) ==
    add_attribute(
        add_attribute(
            add_attribute(SvgGrid_new(b), "fill", "", "None"),
            "stroke", "", color),
        "stroke-width", "", line_width)

(***************************************************************************)
(* Svg: the construction stack                                             *)
(***************************************************************************)
\* The elements a caller hands to the Svg: a group or a one-line path, with
\* or without a transform (apply_transform on a fresh element stores the
\* transform given) and with or without characters (push_string).
CallerPath == <<Bezier_line(<<0, 0>>, <<2, 1>>)>>

\* Every pair of the features (kind, transform, characters, attributes)
\* occurs together.
CallerElements ==
    LET g == SvgGroup_new
        p == SvgPath_new_path(CallerPath, FALSE, "caller")
        t == Transform_of_trs(<<1, 2>>, 90, 2)
    IN  {g,
         add_attribute(add_attribute([g EXCEPT !.transform = t, !.characters = "t"],
                                     "id", "", "a"), "fill", "", "red"),
         add_attribute([p EXCEPT !.characters = "t"], "stroke", "", "blue"),
         [p EXCEPT !.transform = t]}

Configs ==
    {[show_grid |-> g, show_layout |-> FALSE, show_content_rectangles |-> r] :
        g \in BOOLEAN, r \in {<<>>, <<1, "green">>}}

Last(s) == s[Len(s)]

Front(s) == SubSeq(s, 1, Len(s) - 1)

Building == phase = "build" /\ panicked = "" /\ ~iterating

\* A failed assert! / unwrap: the program aborts where it stands.
Panic(op) ==
    /\ panicked' = op
    /\ UNCHANGED <<svgvars, itervars, flog, alg>>

push_content_front(h, parent, e) == [h EXCEPT ![parent].contents = <<e>> \o @]

push_content(h, parent, e) == [h EXCEPT ![parent].contents = Append(@, e)]

stack_push ==
    /\ Building
    /\ Len(heap) < MaxNodes
    /\ \E e \in CallerElements :
        /\ heap' = Append(heap, e)
        /\ stack' = Append(stack, Len(heap) + 1)
    /\ UNCHANGED <<contents, definitions, bbox, config, taken, phase,
                   panicked, itervars, flog, alg>>

stack_pop ==
    /\ Building
    /\ IF stack = <<>> THEN Panic("stack_pop")
       ELSE /\ stack' = Front(stack)
            /\ taken' = taken \cup {Last(stack)}
            /\ UNCHANGED <<heap, contents, definitions, bbox, config, phase,
                           panicked, itervars, flog, alg>>

stack_add_subelement ==
    /\ Building
    /\ Len(heap) < MaxNodes
    /\ IF stack = <<>> THEN Panic("stack_add_subelement")
       ELSE /\ \E e \in CallerElements :
                 heap' = push_content(Append(heap, e), Last(stack), Len(heap) + 1)
            /\ UNCHANGED <<stack, contents, definitions, bbox, config, taken,
                           phase, panicked, itervars, flog, alg>>

stack_pop_to_child_keep_top ==
    /\ Building
    /\ IF ~(Len(stack) > 1) THEN Panic("stack_pop_to_child")
       ELSE /\ stack' = stack
            /\ heap' = push_content(heap, Last(Front(stack)), Last(stack))
            /\ UNCHANGED <<contents, definitions, bbox, config, taken, phase,
                           panicked, itervars, flog, alg>>

stack_pop_to_child ==
    /\ Building
    /\ IF ~(Len(stack) > 1) THEN Panic("stack_pop_to_child")
       ELSE /\ stack' = Front(stack)
            /\ heap' = push_content(heap, Last(Front(stack)), Last(stack))
            /\ UNCHANGED <<contents, definitions, bbox, config, taken, phase,
                           panicked, itervars, flog, alg>>

contents_add_element ==
    /\ Building
    /\ Len(heap) < MaxNodes
    /\ \E e \in CallerElements :
        /\ heap' = Append(heap, e)
        /\ contents' = Append(contents, Len(heap) + 1)
    /\ UNCHANGED <<stack, definitions, bbox, config, taken, phase,
                   panicked, itervars, flog, alg>>

contents_take_stack_any ==
    /\ Building
    /\ IF stack = <<>> THEN Panic("contents_take_stack")
       ELSE /\ contents' = Append(contents, Last(stack))
            /\ stack' = Front(stack)
            /\ UNCHANGED <<heap, definitions, bbox, config, taken, phase,
                           panicked, itervars, flog, alg>>

contents_take_stack ==
    /\ Building
    /\ IF Len(stack) # 1 THEN Panic("contents_take_stack")
       ELSE /\ contents' = Append(contents, Last(stack))
            /\ stack' = Front(stack)
            /\ UNCHANGED <<heap, definitions, bbox, config, taken, phase,
                           panicked, itervars, flog, alg>>

definitions_add_element ==
    /\ Building
    /\ Len(heap) < MaxNodes
    /\ \E e \in CallerElements :
        /\ heap' = Append(heap, e)
        /\ definitions' = Append(definitions, Len(heap) + 1)
    /\ UNCHANGED <<stack, contents, bbox, config, taken, phase,
                   panicked, itervars, flog, alg>>

definitions_take_stack_copy ==
    /\ Building
    /\ IF Len(stack) # 1 THEN Panic("definitions_take_stack")
       ELSE /\ definitions' = Append(definitions, Last(stack))
            /\ stack' = stack
            /\ UNCHANGED <<heap, contents, bbox, config, taken, phase,
                           panicked, itervars, flog, alg>>

definitions_take_stack ==
    /\ Building
    /\ IF Len(stack) # 1 THEN Panic("definitions_take_stack")
       ELSE /\ definitions' = Append(definitions, Last(stack))
            /\ stack' = Front(stack)
            /\ UNCHANGED <<heap, contents, bbox, config, taken, phase,
                           panicked, itervars, flog, alg>>

(***************************************************************************)
(* SvgElement::finalize and Svg::finalize                                  *)
(***************************************************************************)
\* The element's box in its own coordinate space: the running union of its
\* children's boxes, united with the box of its payload.
own_space_bbox(children_bbox, e) == BBox_union(children_bbox, ele_type_bbox(e))

\* The child list once the extra nodes returned by the children are pushed.
push_child_extra_front(cs, child_extra) == child_extra \o cs

push_child_extra(cs, child_extra) == cs \o child_extra

\* The extra nodes finalize returns for element `id`: its content rectangle,
\* built from the box in the element's own space and the transform string
\* taken on entry.
make_extra(cfg, e, id, transform) ==
    IF Len(cfg.show_content_rectangles) = 0 THEN <<>>
    ELSE LET e0 == SvgElement_new_box(e.bbox, cfg.show_content_rectangles[1],
                                      cfg.show_content_rectangles[2])
             e1 == IF Len(transform) # 0
                      THEN add_attribute(e0, "transform", "", transform) ELSE e0
         IN  <<[e1 EXCEPT !.attributes = @ \o ele_type_push_attributes(e1),
                          !.outline_of = id]>>

parent_space_bbox_unmoved(b, t) == b

\* The box handed to the parent: the own-space box under the own Transform.
parent_space_bbox(b, t) == BBox_transform(b, t)

final_attributes_payload_first(e, transform) ==
    LET e1 == [e EXCEPT !.attributes = @ \o ele_type_push_attributes(e)]
    IN  IF Len(transform) # 0
        THEN add_attribute(e1, "transform", "", transform).attributes
        ELSE e1.attributes

\* The element's attributes at the end of finalize.
final_attributes(e, transform) ==
    LET e1 == IF Len(transform) # 0
                 THEN add_attribute(e, "transform", "", transform) ELSE e
    IN  e1.attributes \o ele_type_push_attributes(e1)

\* SvgElementType::finalize(svg_cfg, &contents, &characters) does nothing
\* in every element type; the call and the child list handed to it are
\* recorded.
ele_type_finalize(log, id, cs) == Append(log, <<"hook", id, cs>>)

RECURSIVE SvgElement_finalize(_, _, _, _), finalize_children(_, _, _, _, _)

\* Finalize element `id` of arena h.  Returns the arena, the indices of the
\* extra nodes for the caller, and the extended call record.
SvgElement_finalize(h, id, cfg, log) ==
    LET transform == Transform_as_svg_attribute_string(h[id].transform)
        cr == finalize_children(h, h[id].contents, 1, cfg,
                  [extra |-> <<>>, bbox |-> BBox_none,
                   log |-> Append(log, <<"enter", id>>)])
        log1 == ele_type_finalize(cr.log, id, cr.heap[id].contents)
        h1 == [cr.heap EXCEPT ![id].bbox = own_space_bbox(cr.bbox, cr.heap[id])]
        h2 == [h1 EXCEPT ![id].contents = push_child_extra(@, cr.extra)]
        made == make_extra(cfg, h2[id], id, transform)
        h3 == h2 \o made
        extra == [i \in 1..Len(made) |-> Len(h2) + i]
        h4 == [h3 EXCEPT ![id].bbox = parent_space_bbox(@, h3[id].transform)]
        h5 == [h4 EXCEPT ![id].attributes = final_attributes(h4[id], transform)]
        log2 == log1 \o <<<<"bbox", id>>, <<"push_attributes", id>>>>
    IN  [heap |-> h5, extra |-> extra, log |-> Append(log2, <<"exit", id>>)]

\* for c in contents.iter_mut() { child_extra.append(c.finalize(cfg));
\*                                bbox = bbox.union(c.bbox()); }
finalize_children(h, cs, i, cfg, acc) ==
    IF i > Len(cs) THEN [heap |-> h, extra |-> acc.extra, bbox |-> acc.bbox,
                         log |-> acc.log]
    ELSE LET r == SvgElement_finalize(h, cs[i], cfg, acc.log)
         IN  finalize_children(r.heap, cs, i + 1, cfg,
                 [extra |-> acc.extra \o r.extra,
                  bbox |-> BBox_union(acc.bbox, r.heap[cs[i]].bbox),
                  log |-> r.log])

Svg_finalize ==
    /\ Building
    /\ IF stack # <<>> THEN Panic("finalize")
       ELSE LET r == finalize_children(heap, contents, 1, config,
                        [extra |-> <<>>, bbox |-> BBox_default, log |-> flog])
            IN  /\ heap' = r.heap
                /\ bbox' = r.bbox
                /\ contents' = push_child_extra(contents, r.extra)
                /\ flog' = r.log
                /\ phase' = "finalized"
                /\ UNCHANGED <<stack, definitions, config, taken, panicked,
                               itervars, alg>>

(***************************************************************************)
(* Svg::generate_diagram and Svg::iter_events                              *)
(***************************************************************************)
\* The width, height and viewBox values are formatted from get_bounds() of
\* the Svg's box; the value kept here is the box they are formatted from.
svg_root(b) ==
    LET a1 == add_attribute(SvgSvg_new, "svg", "xmlns", "http://www.w3.org/2000/svg")
        a2 == add_attribute(a1, "xmlns", "", "http://www.w3.org/2000/svg")
        a3 == add_attribute(a2, "version", "", "2.0")
        a4 == add_attribute(a3, "width", "", b)
        a5 == add_attribute(a4, "height", "", b)
    IN  add_attribute(a5, "viewBox", "", b)

generate_diagram_refinalize ==
    /\ phase = "finalized" /\ panicked = "" /\ ~iterating
    /\ LET f  == finalize_children(heap, contents, 1, config,
                     [extra |-> <<>>, bbox |-> BBox_default, log |-> flog])
           cs == push_child_extra(contents, f.extra)
           root == Len(f.heap) + 1
           h1 == Append(f.heap, svg_root(f.bbox))
           h2 == [h1 EXCEPT ![root].contents = @ \o cs]
           grid == root + 1
           r  == SvgElement_finalize(Append(h2, SvgElement_new_grid(f.bbox, 1, "grey")),
                                     grid, config, f.log)
           h3 == push_content(SubSeq(r.heap, 1, grid), root, grid)
       IN  /\ stack' = Append(stack, root)
           /\ contents' = <<>>
           /\ bbox' = f.bbox
           /\ heap' = IF config.show_grid THEN h3 ELSE h2
           /\ flog' = IF config.show_grid THEN r.log ELSE f.log
    /\ phase' = "generated"
    /\ UNCHANGED <<definitions, config, taken, panicked, itervars, alg>>

generate_diagram ==
    /\ phase = "finalized" /\ panicked = "" /\ ~iterating
    /\ LET root == Len(heap) + 1
           h1 == Append(heap, svg_root(bbox))
           \* for d in take(&mut contents) { stack_add_subelement(d) }
           h2 == [h1 EXCEPT ![root].contents = @ \o contents]
           grid == root + 1
           \* let _ = e.finalize(&config): the returned nodes are dropped
           r  == SvgElement_finalize(Append(h2, SvgElement_new_grid(bbox, 1, "grey")),
                                     grid, config, flog)
           h3 == push_content(SubSeq(r.heap, 1, grid), root, grid)
       IN  /\ stack' = Append(stack, root)
           /\ contents' = <<>>
           /\ heap' = IF config.show_grid THEN h3 ELSE h2
           /\ flog' = IF config.show_grid THEN r.log ELSE flog
    /\ phase' = "generated"
    /\ UNCHANGED <<definitions, bbox, config, taken, panicked, itervars, alg>>

\* ElementIter::new(&self.stack[0]); indexing an empty stack aborts.
iter_events ==
    /\ panicked = "" /\ ~iterating
    /\ IF stack = <<>> THEN Panic("iter_events")
       ELSE /\ iterating' = TRUE
            /\ state' = "PreDocument"
            /\ elements' = <<<<stack[1], 0>>>>
            /\ UNCHANGED <<svgvars, panicked, ret, steps, events, flog, alg>>

(***************************************************************************)
(* ElementIter                                                             *)
(***************************************************************************)
Event(ev, e) == [ev |-> ev, e |-> e]

NoEvent == Event("", 0)

\* What one arm of next() does: the new state and stack, and whether it
\* returns Some(event), returns None, calls self.next() ("again") or aborts
\* on pop().unwrap() of an empty stack.
Arm(st, els, kind, event) ==
    [state |-> st, elements |-> els, kind |-> kind, event |-> event]

Abort(st, els) == Arm(st, els, "panic", NoEvent)

PreDocument(els, h) == Arm("PreElement", els, "Some", Event("StartDocument", 0))

PreElement(els, h) ==
    IF els = <<>> THEN Abort("PreElement", els)
    ELSE Arm("PreString", els, "Some", Event("StartElement", Last(els)[1]))

PreString_always(els, h) ==
    IF els = <<>> THEN Abort("PreString", els)
    ELSE Arm("PreContent", els, "Some", Event("Characters", Last(els)[1]))

PreString(els, h) ==
    IF els = <<>> THEN Abort("PreString", els)
    ELSE IF h[Last(els)[1]].characters # ""
         THEN Arm("PreContent", els, "Some", Event("Characters", Last(els)[1]))
         ELSE Arm("PreContent", els, "again", NoEvent)

PreContent_last_first(els, h) ==
    IF els = <<>> THEN Abort("PreContent", els)
    ELSE LET ele == Last(els)[1]
             n   == Last(els)[2]
         IN  IF n < Len(h[ele].contents)
             THEN Arm("PreElement", Append(els, <<Last(h[ele].contents), 0>>),
                      "again", NoEvent)
             ELSE Arm("PostContent", els, "again", NoEvent)

PreContent(els, h) ==
    IF els = <<>> THEN Abort("PreContent", els)
    ELSE LET ele == Last(els)[1]
             n   == Last(els)[2]
         IN  IF n < Len(h[ele].contents)
             THEN Arm("PreElement", Append(els, <<h[ele].contents[n + 1], 0>>),
                      "again", NoEvent)
             ELSE Arm("PostContent", els, "again", NoEvent)

PostContent_pop(els, h) ==
    IF els = <<>> THEN Abort("PostContent", els)
    ELSE Arm("FindNextElement", Front(els), "Some", Event("EndElement", Last(els)[1]))

PostContent(els, h) ==
    IF els = <<>> THEN Abort("PostContent", els)
    ELSE Arm("FindNextElement", els, "Some", Event("EndElement", Last(els)[1]))

FindNextElement_respin(els, h) ==
    IF Len(els) > 1
    THEN Arm("FindNextElement", els, "again", NoEvent)
    ELSE Arm("DocumentEnd", els, "again", NoEvent)

FindNextElement(els, h) ==
    IF Len(els) > 1
    THEN LET rest == Front(Front(els))
             ele  == Last(Front(els))[1]
             n    == Last(Front(els))[2]
         IN  IF n + 1 < Len(h[ele].contents)
             THEN Arm("PreElement",
                      rest \o <<<<ele, n + 1>>, <<h[ele].contents[n + 2], 0>>>>,
                      "again", NoEvent)
             ELSE Arm("PostContent", Append(rest, <<ele, n + 1>>), "again", NoEvent)
    ELSE Arm("DocumentEnd", els, "again", NoEvent)

DocumentEnd(els, h) == Arm("Completed", els, "Some", Event("EndDocument", 0))

Completed_again(els, h) == Arm("Completed", els, "Some", Event("EndDocument", 0))

Completed(els, h) == Arm("Completed", els, "None", NoEvent)

\* The most handler invocations one next() call is followed through.
MaxInner == 6

RECURSIVE ElementIter_next(_, _, _, _)
\* next() entered in state st: the arm of the match, followed through the
\* self.next() calls it ends in.  k counts the invocations.
ElementIter_next(st, els, h, k) ==
    LET r == CASE st = "PreDocument"     -> PreDocument(els, h)
               [] st = "PreElement"      -> PreElement(els, h)
               [] st = "PreString"       -> PreString(els, h)
               [] st = "PreContent"      -> PreContent(els, h)
               [] st = "PostContent"     -> PostContent(els, h)
               [] st = "FindNextElement" -> FindNextElement(els, h)
               [] st = "DocumentEnd"     -> DocumentEnd(els, h)
               [] st = "Completed"       -> Completed(els, h)
    IN  IF r.kind # "again" THEN r @@ [steps |-> k]
        ELSE IF k >= MaxInner
             THEN Arm(r.state, r.elements, "unfinished", NoEvent) @@ [steps |-> k]
             ELSE ElementIter_next(r.state, r.elements, h, k + 1)

next ==
    /\ iterating /\ panicked = ""
    /\ LET r == ElementIter_next(state, elements, heap, 1)
       IN  IF r.kind = "panic" THEN Panic("next")
           ELSE /\ state' = r.state
                /\ elements' = r.elements
                /\ ret' = [kind |-> r.kind, event |-> r.event]
                /\ steps' = r.steps
                /\ events' = IF r.kind = "Some" THEN Append(events, r.event)
                                                ELSE events
                /\ UNCHANGED <<svgvars, iterating, panicked, flog, alg>>

(***************************************************************************)
(* Specifications                                                          *)
(***************************************************************************)
SvgInit(cfg) ==
    /\ heap = <<>>
    /\ stack = <<>>
    /\ contents = <<>>
    /\ definitions = <<>>
    /\ bbox = BBox_none
    /\ config = cfg
    /\ taken = {}
    /\ phase = "build"
    /\ panicked = ""
    /\ state = "PreDocument"
    /\ elements = <<>>
    /\ iterating = FALSE
    /\ ret = [kind |-> "", event |-> NoEvent]
    /\ steps = 0
    /\ events = <<>>
    /\ flog = <<>>

\* Svg::new(config)
Init == (\E cfg \in Configs : SvgInit(cfg)) /\ alg = NoAlg

Next ==
    \/ stack_push
    \/ stack_pop
    \/ stack_add_subelement
    \/ stack_pop_to_child
    \/ contents_add_element
    \/ contents_take_stack
    \/ definitions_add_element
    \/ definitions_take_stack
    \/ Svg_finalize
    \/ generate_diagram
    \/ iter_events
    \/ next

Spec == Init /\ [][Next]_vars

\* The caller keeps calling next() on the iterator it holds.
SpecIter == Spec /\ WF_vars(next)

\* The algebra operations on their own, over every pair of operand boxes.
InitAlg ==
    /\ SvgInit([show_grid |-> FALSE, show_layout |-> FALSE,
                show_content_rectangles |-> <<>>])
    /\ AlgInit

NextAlg ==
    /\ \/ DoRangeUnion
       \/ DoRangeIntersect
       \/ DoBBoxUnion
       \/ DoBBoxIntersect
    /\ UNCHANGED <<svgvars, panicked, itervars, flog>>

SpecAlg == InitAlg /\ [][NextAlg]_vars

\* The scalar operations on every box and scalar of the bounded sets
InitScal ==
    /\ SvgInit([show_grid |-> FALSE, show_layout |-> FALSE,
                show_content_rectangles |-> <<>>])
    /\ ScalInit

NextScal ==
    /\ \/ DoRangeEnlarge
       \/ DoRangeReduce
       \/ DoRangeEnlargeReduce
       \/ DoBBoxEnlarge
       \/ DoBBoxReduce
       \/ DoBBoxEnlargeReduce
       \/ DoRangeMul
       \/ DoRangeMulAssign
       \/ DoRangeDiv
       \/ DoRangeDivAssign
       \/ DoBBoxMul
       \/ DoBBoxMulAssign
       \/ DoBBoxDiv
       \/ DoBBoxDivAssign
       \/ DoRangeAdd
       \/ DoRangeAddAssign
       \/ DoRangeSub
       \/ DoRangeSubAssign
       \/ DoBBoxAdd
       \/ DoBBoxAddAssign
       \/ DoBBoxSub
       \/ DoBBoxSubAssign
       \/ DoBBoxExpand
       \/ DoBBoxShrink
       \/ DoBBoxExpandShrink
    /\ UNCHANGED <<svgvars, panicked, itervars, flog>>

SpecScal == InitScal /\ [][NextScal]_vars

\* The Transform operations
InitXf ==
    /\ SvgInit([show_grid |-> FALSE, show_layout |-> FALSE,
                show_content_rectangles |-> <<>>])
    /\ XfInit

NextXf ==
    /\ \/ DoToMatrix
       \/ DoOfMatrixOfToMatrix
       \/ DoOfMatrix
       \/ DoApplyToTransform
    /\ UNCHANGED <<svgvars, panicked, itervars, flog>>

SpecXf == InitXf /\ [][NextXf]_vars

\* BezierPath::round and Polygon::as_paths
InitPath ==
    /\ SvgInit([show_grid |-> FALSE, show_layout |-> FALSE,
                show_content_rectangles |-> <<>>])
    /\ PathInit

NextPath ==
    /\ \/ DoRound
       \/ DoAsPaths
       \/ DoPolygonAdd
       \/ DoPolygonSub
    /\ UNCHANGED <<svgvars, panicked, itervars, flog>>

SpecPath == InitPath /\ [][NextPath]_vars

\* ElementIter::new(e) over any element tree.  The elements are numbered
\* in document order, so every child list is increasing and every ordered
\* tree shape of up to MaxTree elements occurs.
RECURSIVE Ascending(_)
Ascending(S) ==
    IF S = {} THEN <<>>
    ELSE LET m == CHOOSE x \in S : \A y \in S : x <= y
         IN  <<m>> \o Ascending(S \ {m})

IsDocumentOrder(n, parent) ==
    \* a child's later siblings come after the whole subtree of the child
    \A i \in 2..n : \A j \in 2..n :
        (i < j /\ parent[j] < i) => parent[j] <= parent[i]

TreeHeap(n, parent, chars) ==
    [i \in 1..n |->
        [SvgGroup_new EXCEPT
            !.contents = Ascending({j \in 2..n : parent[j] = i}),
            !.characters = chars[i]]]

InitTree ==
    /\ \E n \in 1..MaxTree :
       \E parent \in [2..n -> 1..n] :
       \E chars \in [1..n -> {"", "t"}] :
           /\ \A i \in 2..n : parent[i] < i
           /\ IsDocumentOrder(n, parent)
           /\ heap = TreeHeap(n, parent, chars)
    /\ stack = <<>>
    /\ contents = <<>>
    /\ definitions = <<>>
    /\ bbox = BBox_none
    /\ config = [show_grid |-> FALSE, show_layout |-> FALSE,
                 show_content_rectangles |-> <<>>]
    /\ taken = {}
    /\ phase = "build"
    /\ panicked = ""
    /\ state = "PreDocument"
    /\ elements = <<<<1, 0>>>>
    /\ iterating = TRUE
    /\ ret = [kind |-> "", event |-> NoEvent]
    /\ steps = 0
    /\ events = <<>>
    /\ flog = <<>>
    /\ alg = NoAlg

NextTree == next

SpecTree == InitTree /\ [][NextTree]_vars

\* The caller keeps calling next() until it returns None.
SpecTreeLive == SpecTree /\ WF_vars(next)

(***************************************************************************)
(* Properties of ElementIter, over SpecTree (the iterator's root is 1)     *)
(***************************************************************************)
RECURSIVE Subtree(_, _), SubtreeOfAll(_, _)
\* the elements of the tree rooted at x
Subtree(h, x) == {x} \cup SubtreeOfAll(h, h[x].contents)

SubtreeOfAll(h, cs) ==
    IF cs = <<>> THEN {} ELSE Subtree(h, Head(cs)) \cup SubtreeOfAll(h, Tail(cs))

HasCharacters(h, x) == h[x].characters # ""

Occurrences(ev) == {i \in 1..Len(events) : events[i] = ev}

OfKind(k) == {i \in 1..Len(events) : events[i].ev = k}

RECURSIVE Block(_, _), Blocks(_, _)
\* the events of element x in document order
Block(h, x) ==
    <<Event("StartElement", x)>>
    \o (IF HasCharacters(h, x) THEN <<Event("Characters", x)>> ELSE <<>>)
    \o Blocks(h, h[x].contents)
    \o <<Event("EndElement", x)>>

Blocks(h, cs) ==
    IF cs = <<>> THEN <<>> ELSE Block(h, Head(cs)) \o Blocks(h, Tail(cs))

Document(h, x) ==
    <<Event("StartDocument", 0)>> \o Block(h, x) \o <<Event("EndDocument", 0)>>

IsPrefix(s, t) == Len(s) <= Len(t) /\ s = SubSeq(t, 1, Len(s))

\* C1: when next() has returned None, the events returned before it are
\* one StartDocument, one StartElement and one EndElement for each of the
\* n elements of the tree, one Characters for each of the c elements with
\* non-empty characters, and one EndDocument: 2n + c + 2 events.
C1_EventCount ==
    ret.kind = "None" =>
        LET T == Subtree(heap, 1)
            n == Cardinality(T)
            c == Cardinality({x \in T : HasCharacters(heap, x)})
        IN  /\ Len(events) = 2 * n + c + 2
            /\ Cardinality(OfKind("StartDocument")) = 1
            /\ Cardinality(OfKind("EndDocument")) = 1
            /\ Cardinality(OfKind("StartElement")) = n
            /\ Cardinality(OfKind("EndElement")) = n
            /\ Cardinality(OfKind("Characters")) = c
            /\ \A x \in T :
                /\ Cardinality(Occurrences(Event("StartElement", x))) = 1
                /\ Cardinality(Occurrences(Event("EndElement", x))) = 1

C1_Witness ==
    /\ ret.kind = "None"
    /\ Len(heap) = 4
    /\ Cardinality({x \in 1..4 : HasCharacters(heap, x)}) = 2
    /\ Len(events) = 12

\* C2: the events returned so far are always an initial part of the
\* document order of the tree (StartDocument, then for each element its
\* StartElement, its Characters if it has any, the blocks of its children in
\* child-list order, its EndElement, then EndDocument), every EndElement
\* closes the element opened last and not yet closed, and at Completed the
\* whole document order has been returned.
C2_DocumentOrder ==
    /\ IsPrefix(events, Document(heap, 1))
    /\ state = "Completed" => events = Document(heap, 1)
    /\ \A i \in OfKind("EndElement") :
        LET open == {j \in 1..(i - 1) :
                        /\ events[j].ev = "StartElement"
                        /\ \A k \in (j + 1)..(i - 1) :
                              events[k] # Event("EndElement", events[j].e)}
        IN  /\ open # {}
            /\ events[i].e = events[CHOOSE j \in open : \A k \in open : k <= j].e

C2_Witness ==
    /\ state = "Completed"
    /\ Len(heap) = 4
    /\ Len(heap[1].contents) = 2
    /\ Len(heap[2].contents) = 1
    /\ HasCharacters(heap, 3)

\* C3: every next() call returns after a bounded number of handler
\* invocations (at most three: PreString, PreContent and FindNextElement
\* never spin), and the iterator reaches Completed, so only finitely many
\* events are returned.
C3_Terminates ==
    /\ [](ret.kind # "unfinished" /\ steps <= 3)
    /\ <>(state = "Completed")

C3_Witness ==
    /\ state = "Completed"
    /\ steps = 2
    /\ Len(heap) = 4
    /\ Len(events) >= 10

\* C4: EndDocument is returned once, as the last event and right after the
\* root's EndElement; from Completed a next() returns None and changes
\* neither the state, the stack nor the events, and nothing is returned
\* after a None.
C4_EndDocumentOnce ==
    /\ [](/\ Cardinality(OfKind("EndDocument")) <= 1
          /\ \A i \in OfKind("EndDocument") :
                /\ i = Len(events)
                /\ i > 1
                /\ events[i - 1] = Event("EndElement", 1)
          /\ state = "Completed" <=> OfKind("EndDocument") # {})
    /\ [][state = "Completed" =>
            /\ ret'.kind = "None"
            /\ state' = "Completed"
            /\ elements' = elements
            /\ events' = events]_vars
    /\ [][ret.kind = "None" => ret'.kind = "None" /\ events' = events]_vars

C4_Witness ==
    /\ state = "Completed"
    /\ ret.kind = "None"
    /\ Len(heap) >= 3

(***************************************************************************)
(* Properties of the finalize pass, over Spec                              *)
(***************************************************************************)
Finalized == {flog[i][2] : i \in {j \in 1..Len(flog) : flog[j][1] = "exit"}}

\* the children an element was given, without the content rectangles that
\* finalize pushed behind them
OriginalChildren(h, x) == SelectSeq(h[x].contents, LAMBDA c : h[c].made_by # "finalize")

RECURSIVE UnionOfChildren(_, _)
UnionOfChildren(h, cs) ==
    IF cs = <<>> THEN BBox_none
    ELSE BBox_union(UnionOfChildren(h, Front(cs)), h[Last(cs)].bbox)

\* C5: after finalize, the box stored in an element is its Transform
\* applied to the union of the stored boxes of its original children and
\* the box of its own payload; a group holding one path has the group's
\* Transform applied to the stored box of the path.
C5_FinalizedBBox ==
    \A x \in Finalized :
        /\ heap[x].bbox =
              BBox_transform(
                  BBox_union(UnionOfChildren(heap, OriginalChildren(heap, x)),
                             ele_type_bbox(heap[x])),
                  heap[x].transform)
        /\ (/\ heap[x].ele_type = "g"
            /\ Len(OriginalChildren(heap, x)) = 1
            /\ heap[OriginalChildren(heap, x)[1]].ele_type = "path")
           => heap[x].bbox =
                 BBox_transform(heap[OriginalChildren(heap, x)[1]].bbox,
                                heap[x].transform)

C5_Witness ==
    /\ phase = "finalized"
    /\ \E x \in Finalized :
        /\ heap[x].ele_type = "g"
        /\ heap[x].transform # Transform_default
        /\ Len(OriginalChildren(heap, x)) = 1
        /\ heap[heap[x].contents[1]].ele_type = "path"
        /\ heap[heap[x].contents[1]].transform # Transform_default
        /\ heap[x].bbox = [x |-> Range_new(-11, -3), y |-> Range_new(0, 4)]

\* the content rectangles made for the elements of cs, in the order of cs
OutlinesOf(h, cs, fresh) ==
    [i \in 1..Len(cs) |-> CHOOSE o \in fresh : h[o].outline_of = cs[i]]

\* C6: a Svg::finalize with show_content_rectangles set creates one
\* outline per element of the forest under contents, and pushes the
\* outlines of a child list's elements behind that list (contents for the
\* top level), in the order of the elements, never into the outlined
\* element's own list; with it unset no element is created and every child
\* list stays as it was.
C6_ContentRectangles ==
    [][(phase = "build" /\ phase' = "finalized") =>
        LET forest == SubtreeOfAll(heap, contents)
            fresh  == (Len(heap) + 1)..Len(heap')
        IN  IF Len(config.show_content_rectangles) # 0
            THEN /\ Cardinality(fresh) = Cardinality(forest)
                 /\ \A o \in fresh : /\ heap'[o].made_by = "finalize"
                                     /\ heap'[o].contents = <<>>
                 /\ \A x \in forest :
                        Cardinality({o \in fresh : heap'[o].outline_of = x}) = 1
                 /\ contents' = contents \o OutlinesOf(heap', contents, fresh)
                 /\ \A x \in 1..Len(heap) :
                        heap'[x].contents =
                            IF x \in forest
                            THEN heap[x].contents
                                 \o OutlinesOf(heap', heap[x].contents, fresh)
                            ELSE heap[x].contents
            ELSE /\ fresh = {}
                 /\ contents' = contents
                 /\ \A x \in 1..Len(heap) : heap'[x].contents = heap[x].contents
      ]_vars

C6_Witness ==
    /\ phase = "finalized"
    /\ Len(config.show_content_rectangles) # 0
    /\ Len(contents) = 2
    /\ Len(heap[contents[1]].contents) = 2
    /\ heap[contents[2]].outline_of = contents[1]
    /\ heap[heap[contents[1]].contents[2]].outline_of = heap[contents[1]].contents[1]

Entered(x) == {i \in 1..Len(flog) : flog[i] = <<"enter", x>>}

Exited(x) == {i \in 1..Len(flog) : flog[i] = <<"exit", x>>}

FinalizedOnce(x) ==
    /\ Cardinality(Entered(x)) = 1
    /\ Cardinality(Exited(x)) = 1

ChildrenBeforeSelf(x, cs) ==
    \A i \in 1..Len(cs) :
        \A e \in Exited(x) : \E c \in Exited(cs[i]) : c < e

Traversed == Subtree(heap, stack[1])

\* C7 as stated: in a run construction; Svg::finalize; generate_diagram;
\* iter_events, every element of the traversed tree has been finalized
\* exactly once, after each of its children.
C7_AllFinalizedOnce ==
    (iterating /\ phase = "generated") =>
        \A x \in Traversed :
            /\ FinalizedOnce(x)
            /\ ChildrenBeforeSelf(x, heap[x].contents)

\* C7 amended: in such a run every element of the traversed tree that the
\* caller handed in, and the grid, has been finalized exactly once, after
\* each of its original children; the svg root made by generate_diagram and
\* the content rectangles made inside finalize are never finalized.
C7_CallerElementsFinalizedOnce ==
    (iterating /\ phase = "generated") =>
        \A x \in Traversed :
            IF heap[x].made_by = "caller" \/ heap[x].ele_type = "grid"
            THEN /\ FinalizedOnce(x)
                 /\ ChildrenBeforeSelf(x, OriginalChildren(heap, x))
                 /\ \A c \in Subtree(heap, x) \ {x} :
                        \A e \in Entered(x) : \A d \in Entered(c) : e < d
            ELSE Entered(x) = {} /\ Exited(x) = {}

C7_Witness ==
    /\ iterating /\ phase = "generated"
    /\ Len(config.show_content_rectangles) # 0
    /\ config.show_grid
    /\ \E x \in Traversed :
        /\ heap[x].made_by = "caller"
        /\ Len(OriginalChildren(heap, x)) = 1
        /\ Len(heap[x].contents) = 2
    /\ Cardinality(Traversed) = 6

(***************************************************************************)
(* Properties of the construction stack, over Spec                         *)
(***************************************************************************)
Aborted(op) ==
    /\ panicked' = op
    /\ UNCHANGED <<svgvars, itervars, flog>>

\* C8: a construction call made with its stack-size precondition violated
\* aborts and changes nothing: stack_pop and stack_add_subelement on an
\* empty stack, stack_pop_to_child with fewer than two entries,
\* contents_take_stack and definitions_take_stack with a stack length other
\* than one, Svg::finalize with a non-empty stack.
C8_PreconditionAborts ==
    [][/\ (stack_pop /\ stack = <<>>) => Aborted("stack_pop")
       /\ (stack_add_subelement /\ stack = <<>>) => Aborted("stack_add_subelement")
       /\ (stack_pop_to_child /\ Len(stack) < 2) => Aborted("stack_pop_to_child")
       /\ (contents_take_stack /\ Len(stack) # 1) => Aborted("contents_take_stack")
       /\ (definitions_take_stack /\ Len(stack) # 1)
              => Aborted("definitions_take_stack")
       /\ (Svg_finalize /\ stack # <<>>) => Aborted("finalize")
      ]_vars

C8_Witness ==
    /\ panicked = "contents_take_stack"
    /\ Len(stack) = 2
    /\ contents = <<>>

(***************************************************************************)
(* Properties of the interval and box algebra, over SpecAlg                *)
(***************************************************************************)
\* a lies within u, as sets of points
RangeWithin(a, u) ==
    Range_is_none(a) \/ (~Range_is_none(u) /\ u.min <= a.min /\ a.max <= u.max)

BBoxWithin(a, u) ==
    BBox_is_none(a)
    \/ (~BBox_is_none(u) /\ RangeWithin(a.x, u.x) /\ RangeWithin(a.y, u.y))

\* C9 as stated: union(a, b) contains a and b, and a union with an empty
\* operand on either side is equal to the other operand, for Range and BBox.
C9_UnionLaws ==
    /\ alg.op = "Range::union" =>
        /\ RangeWithin(alg.a.x, alg.r) /\ RangeWithin(alg.b.x, alg.r)
        /\ Range_is_none(alg.a.x) => alg.r = alg.b.x
        /\ Range_is_none(alg.b.x) => alg.r = alg.a.x
    /\ alg.op = "BBox::union" =>
        /\ BBoxWithin(alg.a, alg.r) /\ BBoxWithin(alg.b, alg.r)
        /\ BBox_is_none(alg.a) => alg.r = alg.b
        /\ BBox_is_none(alg.b) => alg.r = alg.a

\* C9 amended: union(a, b) contains a and b; union(a, empty) is a for every
\* a; union(empty, b) is b for every non-empty b, and of two empty operands
\* the result is the first, so it is empty; for Range and BBox.
C9_UnionLawsFirstEmptyKept ==
    /\ alg.op = "Range::union" =>
        /\ RangeWithin(alg.a.x, alg.r) /\ RangeWithin(alg.b.x, alg.r)
        /\ (Range_is_none(alg.a.x) /\ ~Range_is_none(alg.b.x)) => alg.r = alg.b.x
        /\ Range_is_none(alg.b.x) => alg.r = alg.a.x
        /\ (Range_is_none(alg.a.x) /\ Range_is_none(alg.b.x)) => Range_is_none(alg.r)
    /\ alg.op = "BBox::union" =>
        /\ BBoxWithin(alg.a, alg.r) /\ BBoxWithin(alg.b, alg.r)
        /\ (BBox_is_none(alg.a) /\ ~BBox_is_none(alg.b)) => alg.r = alg.b
        /\ BBox_is_none(alg.b) => alg.r = alg.a
        /\ (BBox_is_none(alg.a) /\ BBox_is_none(alg.b)) => BBox_is_none(alg.r)

C9_Witness ==
    /\ alg.op = "BBox::union"
    /\ BBox_is_none(alg.a) /\ ~Range_is_none(alg.a.x)
    /\ ~BBox_is_none(alg.b)
    /\ alg.r = alg.b

\* C10: intersect(a, b) lies within a and within b, and an intersection
\* with an empty operand on either side is empty, for Range and BBox.
C10_IntersectLaws ==
    /\ alg.op = "Range::intersect" =>
        /\ RangeWithin(alg.r, alg.a.x) /\ RangeWithin(alg.r, alg.b.x)
        /\ (Range_is_none(alg.a.x) \/ Range_is_none(alg.b.x)) => Range_is_none(alg.r)
    /\ alg.op = "BBox::intersect" =>
        /\ BBoxWithin(alg.r, alg.a) /\ BBoxWithin(alg.r, alg.b)
        /\ (BBox_is_none(alg.a) \/ BBox_is_none(alg.b)) => BBox_is_none(alg.r)

ScaleOps ==
    {"Range::mul", "Range::mul_assign", "Range::div", "Range::div_assign",
     "BBox::mul", "BBox::mul_assign", "BBox::div", "BBox::div_assign"}

IsRangeOp(op) == op \in {"Range::mul", "Range::mul_assign", "Range::div",
                         "Range::div_assign"}

\* C12: scaling a non-empty Range or BBox by a negative factor with *, /,
\* *= or /= gives a value with min <= max on every axis.
C12_NegativeScaleKeepsOrder ==
    (alg.op \in ScaleOps /\ alg.v < 0) =>
        IF IsRangeOp(alg.op)
        THEN ~Range_is_none(alg.a.x) => alg.r.min <= alg.r.max
        ELSE ~BBox_is_none(alg.a) =>
                (alg.r.x.min <= alg.r.x.max /\ alg.r.y.min <= alg.r.y.max)

\* C13: expand(d, s) moves the four sides out by s*d, shrink(d, s) moves
\* them in by s*d, and expand(d, s) then shrink(d, s) gives back the box.
C13_ExpandShrink ==
    /\ alg.op = "BBox::expand" =>
        /\ alg.r.x.min = alg.a.x.min - alg.v * alg.d[1]
        /\ alg.r.y.min = alg.a.y.min - alg.v * alg.d[2]
        /\ alg.r.x.max = alg.a.x.max + alg.v * alg.d[3]
        /\ alg.r.y.max = alg.a.y.max + alg.v * alg.d[4]
    /\ alg.op = "BBox::shrink" =>
        /\ alg.r.x.min = alg.a.x.min + alg.v * alg.d[1]
        /\ alg.r.y.min = alg.a.y.min + alg.v * alg.d[2]
        /\ alg.r.x.max = alg.a.x.max - alg.v * alg.d[3]
        /\ alg.r.y.max = alg.a.y.max - alg.v * alg.d[4]
    /\ alg.op = "BBox::expand.shrink" => alg.r = alg.a

C13_Witness ==
    /\ alg.op = "BBox::expand.shrink"
    /\ alg.v > 1
    /\ alg.d[1] # alg.d[3]
    /\ alg.mid # alg.a
    /\ alg.r = alg.a

(***************************************************************************)
(* Properties of the Transform operations, over SpecXf                     *)
(***************************************************************************)
\* C14 as stated: for every transform t with positive scale,
\* of_matrix(t.to_matrix()) succeeds and returns the translation, rotation
\* and scale of t.
C14_MatrixRoundTrip ==
    alg.op = "to_matrix.of_matrix" =>
        /\ alg.r.ok
        /\ alg.r.value.translation = alg.t.translation
        /\ alg.r.value.rotation = alg.t.rotation
        /\ alg.r.value.scale = alg.t.scale

\* C14 amended: for every transform t with positive scale,
\* of_matrix(t.to_matrix()) succeeds and returns the translation and scale
\* of t; it returns the rotation of t when that lies in (-180, 180], and
\* otherwise a different rotation in (-180, 180] that is a whole number of
\* turns away from it.
C14_MatrixRoundTripModuloTurns ==
    alg.op = "to_matrix.of_matrix" =>
        /\ alg.r.ok
        /\ alg.r.value.translation = alg.t.translation
        /\ alg.r.value.scale = alg.t.scale
        /\ alg.r.value.rotation \in (-179)..180
        /\ (alg.r.value.rotation - alg.t.rotation) % 360 = 0
        /\ alg.t.rotation \in (-179)..180 => alg.r.value.rotation = alg.t.rotation
        /\ alg.t.rotation \notin (-179)..180 => alg.r.value.rotation # alg.t.rotation

C14_Witness ==
    /\ alg.op = "to_matrix.of_matrix"
    /\ alg.t = Transform_of_trs(<<1, 2>>, 90, 2)
    /\ alg.r = Ok(alg.t)

IsSkewed(m) == m[1] * m[2] + m[5] * m[4] # 0

NegativeDeterminant(m) == m[1] * m[5] - m[2] * m[4] < 0

Rejected(m) ==
    \/ Len(m) # 9
    \/ <<m[7], m[8], m[9]>> # <<0, 0, 1>>
    \/ IsSkewed(m)
    \/ NegativeDeterminant(m)

\* C15: of_matrix returns Err(InvalidTransformationMatrix) with a reason
\* when the matrix does not have 9 entries, its bottom row is not (0, 0, 1),
\* it is skewed or its determinant is negative, and in every other case
\* returns Ok with translation (m2, m5).
C15_OfMatrixErrors ==
    alg.op = "of_matrix" =>
        IF Rejected(alg.m)
        THEN /\ ~alg.r.ok
             /\ alg.r.err = "InvalidTransformationMatrix"
             /\ alg.r.reason # ""
        ELSE /\ alg.r.ok
             /\ alg.r.value.translation = <<alg.m[3], alg.m[6]>>

C15_Witness ==
    /\ alg.op = "of_matrix"
    /\ Len(alg.m) = 9
    /\ <<alg.m[7], alg.m[8], alg.m[9]>> = <<0, 0, 1>>
    /\ IsSkewed(alg.m)
    /\ ~NegativeDeterminant(alg.m)
    /\ ~alg.r.ok

Points == {<<0, 0>>, <<1, 0>>, <<0, 1>>, <<1, 2>>}

RotateScale(t, p) ==
    <<t.scale * (CosDeg(t.rotation) * p[1] - SinDeg(t.rotation) * p[2]),
      t.scale * (SinDeg(t.rotation) * p[1] + CosDeg(t.rotation) * p[2])>>

\* C16: c = a.apply_to_transform(b) has rotation a.rotation + b.rotation,
\* scale a.scale * b.scale and translation b.translation rotated and scaled
\* by a plus a.translation, so c.apply(p) = a.apply(b.apply(p)) for every p.
C16_Composition ==
    alg.op = "apply_to_transform" =>
        /\ alg.r.rotation = alg.t.rotation + alg.u.rotation
        /\ alg.r.scale = alg.t.scale * alg.u.scale
        /\ alg.r.translation =
            <<RotateScale(alg.t, alg.u.translation)[1] + alg.t.translation[1],
              RotateScale(alg.t, alg.u.translation)[2] + alg.t.translation[2]>>
        /\ \A p \in Points :
            Transform_apply(alg.r, p)
                = Transform_apply(alg.t, Transform_apply(alg.u, p))

(***************************************************************************)
(* Properties of BezierPath::round and Polygon::as_paths, over SpecPath    *)
(***************************************************************************)
Alternates(r) ==
    \A k \in 1..Len(r) : Bezier_is_line(r[k]) = (k % 2 = 1)

\* Each segment starts where the one before it ended.
Chained(r) == \A k \in 1..(Len(r) - 1) : r[k].p1 = r[k + 1].p0

UnitSquare == LinesThrough(<<<<0, 0>>, <<10, 0>>, <<10, 10>>, <<0, 10>>, <<0, 0>>>>)

\* C17: rounding a path of n >= 2 lines by a non-zero amount gives, closed,
\* 2n segments alternating trimmed line / curve with every line trimmed at
\* both ends, and open, 2n - 1 segments with the start of the first line
\* and the end of the last line unchanged; the unit square rounded by 0.1
\* gives 8 resp. 7 segments with lines from 0.1 to 0.9 of their edge.
C17_Round ==
    (alg.op = "round" /\ Len(alg.path) >= 2 /\ alg.rounding # 0) =>
        LET n == Len(alg.path)
            r == alg.r
        IN
        /\ Len(r) = IF alg.closed THEN 2 * n ELSE 2 * n - 1
        /\ Alternates(r)
        /\ Chained(r)
        /\ alg.closed => r[2 * n].p1 = r[1].p0
        /\ \A k \in 1..n :
            /\ (alg.closed \/ k > 1) => r[2 * k - 1].p0 # alg.path[k].p0
            /\ (alg.closed \/ k < n) => r[2 * k - 1].p1 # alg.path[k].p1
        /\ ~alg.closed => (r[1].p0 = alg.path[1].p0
                            /\ r[2 * n - 1].p1 = alg.path[n].p1)
        /\ (alg.path = UnitSquare /\ alg.rounding = 1) =>
            /\ r[1] = Bezier_line(IF alg.closed THEN <<1, 0>> ELSE <<0, 0>>, <<9, 0>>)
            /\ r[3] = Bezier_line(<<10, 1>>, <<10, 9>>)
            /\ r[5] = Bezier_line(<<9, 10>>, <<1, 10>>)
            /\ r[7] = Bezier_line(<<0, 9>>, IF alg.closed THEN <<0, 1>> ELSE <<0, 0>>)

C17_Witness ==
    /\ alg.op = "round"
    /\ alg.path = UnitSquare
    /\ alg.rounding = 1
    /\ alg.closed
    /\ Len(alg.r) = 8
    /\ alg.r[1] = Bezier_line(<<1, 0>>, <<9, 0>>)

\* C18: as_paths gives four arcs for 0 vertices, no segment for 1 vertex,
\* and for n >= 2 vertices a closed path through n corners, or 2n corners
\* with outer and inner points in turn when stellate_size is not 0: that
\* many lines without rounding, twice as many segments with rounding.
C18_AsPaths ==
    alg.op = "as_paths" =>
        LET poly == alg.poly
            r    == alg.r
            n    == poly.vertices
            m    == IF poly.stellate_size # 0 THEN 2 * n ELSE n
        IN
        IF n = 0 THEN Len(r) = 4 /\ \A k \in 1..4 : r[k].arc = 90
        ELSE IF n = 1 THEN r = <<>>
        ELSE IF poly.rounding = 0
        THEN /\ Len(r) = m
             /\ \A k \in 1..m : Bezier_is_line(r[k])
             /\ Chained(r)
             /\ r[m].p1 = r[1].p0
             /\ \A i \in 0..(n - 1) :
                  IF poly.stellate_size # 0
                  THEN /\ r[2 * i + 1].p0 = PolygonPoint(poly, poly.size, 1 - 2 * i)
                       /\ r[2 * i + 2].p0
                            = PolygonPoint(poly, poly.stellate_size, 0 - 2 * i)
                  ELSE r[i + 1].p0 = PolygonPoint(poly, poly.size, 1 - 2 * i)
        ELSE /\ Len(r) = 2 * m
             /\ Alternates(r)
             /\ Chained(r)
             /\ r[2 * m].p1 = r[1].p0

C18_Witness ==
    /\ alg.op = "as_paths"
    /\ alg.poly.vertices = 3
    /\ alg.poly.stellate_size # 0
    /\ alg.poly.rounding # 0
    /\ Len(alg.r) = 12

(***************************************************************************)
(* Properties of the steps inside SvgElement::finalize, over Spec          *)
(***************************************************************************)
\* C19: the element-type finalize hook is called after the extra nodes of
\* the children have been appended to the element's child list, so the
\* child list it is handed is the element's child list after finalize.
C19_HookSeesExtras ==
    \A k \in 1..Len(flog) :
        flog[k][1] = "hook" => flog[k][3] = heap[flog[k][2]].contents

Names(attrs) == [i \in 1..Len(attrs) |-> attrs[i].name]

Positions(log, entry) == {i \in 1..Len(log) : log[i] = entry}

\* C20: a finalize step leaves each element it finalized with the
\* attributes it had before, in their order, then one "transform"
\* attribute exactly when its Transform is not the identity, then the "d"
\* attribute of a path or grid, pushed after the box was stored.
C20_AttributeOrder ==
    [][\A x \in 1..Len(heap') :
        (Positions(flog', <<"exit", x>>) # {} /\ Positions(flog, <<"exit", x>>) = {}) =>
            LET e      == heap'[x]
                added  == SelectSeq(e.attributes,
                                    LAMBDA a : a.name \notin {"transform", "d"})
                tattr  == IF Transform_is_identity(e.transform) THEN <<>>
                          ELSE <<Attr("transform", "",
                                      Transform_as_svg_attribute_string(e.transform))>>
                dattr  == SelectSeq(e.attributes, LAMBDA a : a.name = "d")
            IN  /\ e.attributes = added \o tattr \o dattr
                /\ x <= Len(heap) => added = heap[x].attributes
                /\ Len(dattr) = IF e.ele_type \in {"path", "grid"} THEN 1 ELSE 0
                /\ \E i \in Positions(flog', <<"bbox", x>>) :
                   \E j \in Positions(flog', <<"push_attributes", x>>) :
                        /\ i < j
                        /\ Positions(flog', <<"bbox", x>>) = {i}
                        /\ Positions(flog', <<"push_attributes", x>>) = {j}
      ]_vars

C20_Witness ==
    /\ \E x \in Finalized : Names(heap[x].attributes) = <<"id", "fill", "transform">>
    /\ \E y \in Finalized : Names(heap[y].attributes) = <<"stroke", "d">>

(***************************************************************************)
(* C21, C27, C28: the construction stack and the generated root            *)
(***************************************************************************)
\* the heap apart from node p, which only had node e appended to its children
OnlyAppended(p, e) ==
    /\ heap'[p] = [heap[p] EXCEPT !.contents = Append(@, e)]
    /\ \A x \in 1..Len(heap) : x # p => heap'[x] = heap[x]

CountIn(s, x) == Cardinality({i \in DOMAIN s : s[i] = x})

RECURSIVE SumOver(_, _)
SumOver(S, x) ==
    IF S = {} THEN 0
    ELSE LET p == CHOOSE q \in S : TRUE
         IN  CountIn(heap[p].contents, x) + SumOver(S \ {p}, x)

PlacesOf(x) ==
    CountIn(stack, x) + SumOver(1..Len(heap), x) + CountIn(contents, x)
    + CountIn(definitions, x) + (IF x \in taken THEN 1 ELSE 0)

Abs(x) == IF x < 0 THEN -x ELSE x

\* A curve of the bezier_nd crate: its end points, its control point and
\* the length that Bezier::length reports for it.
Bezier_quadratic(p0, c, p1, len) == [p0 |-> p0, c |-> c, p1 |-> p1, len |-> len]

\* Bezier::length(straightness); exact for a line along an axis
Bezier_length(b) ==
    IF Bezier_is_line(b)
    THEN Abs(b.p1[1] - b.p0[1]) + Abs(b.p1[2] - b.p0[2])
    ELSE b.len

\* The parameter t is kept as the fraction <<distance, length>>.
Zero == <<0, 1>>

One == <<1, 1>>

IsZero(t) == t[1] = 0

IsOne(t) == t[1] = t[2]

\* Bezier::t_of_distance(straightness, distance), for 0 <= distance <= length
Bezier_t_of_distance(b, distance) == <<distance, Bezier_length(b)>>

Bezier_point_at(b, t) ==
    IF IsZero(t) THEN b.p0
    ELSE IF IsOne(t) THEN b.p1
    ELSE IF Bezier_is_line(b)
    THEN <<b.p0[1] + Sgn(b.p1[1] - b.p0[1]) * t[1],
           b.p0[2] + Sgn(b.p1[2] - b.p0[2]) * t[1]>>
    ELSE <<"point_at", b, t[1], t[2]>>

\* Bezier::bezier_between(t0, t1): the part of b from t0 to t1
Bezier_between(b, t0, t1) ==
    IF Bezier_is_line(b)
    THEN Bezier_line(Bezier_point_at(b, t0), Bezier_point_at(b, t1))
    ELSE Bezier_quadratic(Bezier_point_at(b, t0), <<"between", b.c, t0, t1>>,
                          Bezier_point_at(b, t1),
                          (IF IsOne(t1) THEN b.len ELSE t1[1])
                          - (IF IsZero(t0) THEN 0 ELSE t0[1]))

\* The lengths Bezier::length may report for a curve
CurveLengths == {3, 10 + MaxCoord}

\* the path with segment k replaced by a curve between the same points
\* where mask[k] holds
Mix(lines, mask, len) ==
    [k \in 1..Len(lines) |->
        IF mask[k]
        THEN Bezier_quadratic(lines[k].p0, <<"c", k, len>>, lines[k].p1, len)
        ELSE lines[k]]

MixedPaths(os) ==
    UNION {{Mix(LinesThrough(o), mask, len) :
                mask \in [1..(Len(o) - 1) -> BOOLEAN], len \in CurveLengths}
           : o \in os}

\* There-and-back, rectangle and L shape: every line lies along an axis.
Rectilinear == {o \in Outlines : \A k \in 1..(Len(o) - 1) :
                                    AxisAligned(Bezier_tangent_at(Bezier_line(o[k], o[k + 1])))}

ShortPaths ==
    {<<>>, <<Bezier_line(<<0, 0>>, <<10, 0>>)>>,
     <<Bezier_quadratic(<<0, 0>>, <<"c", 1, 3>>, <<10, 0>>, 3)>>}

\* apply_relief(index, ..): 0 is the start, anything else the end
Ends == {0, 1, 2}

Distances == {0, 1, 3, 10, 11, 10 + MaxCoord, 20 + MaxCoord, 100}

ChainInit ==
    \/ \E p \in MixedPaths(Outlines) \cup ShortPaths, r \in Roundings,
          closed \in BOOLEAN :
            alg = [op |-> "path", path |-> p, rounding |-> r, closed |-> closed]
    \/ \E p \in MixedPaths(Rectilinear) \cup ShortPaths, index \in Ends,
          d \in Distances :
            alg = [op |-> "apply_relief", path |-> p, elements |-> p,
                   index |-> index, asked |-> d, distance |-> d, calls |-> 0,
                   returned |-> FALSE]
    \/ \E o \in Outlines \cup {<<>>, <<<<0, 0>>, <<0, 0>>>>}, r \in Roundings :
            alg = [op |-> "corners", corners |-> Front(o), rounding |-> r]

\* path.round(rounding, closed) a second time, with the same arguments
DoRoundAgain ==
    /\ alg.op = "round"
    /\ alg' = [op |-> "round.round", path |-> alg.path, rounding |-> alg.rounding,
               closed |-> alg.closed, mid |-> alg.r,
               r |-> BezierPath_round(alg.r, alg.rounding, alg.closed)]

BezierPath_apply_relief_start ==
    /\ alg.op = "apply_relief" /\ ~alg.returned
    /\ LET els == alg.elements
           n == Len(els)
           Return(e) == [alg EXCEPT !.elements = e, !.returned = TRUE,
                                    !.calls = @ + 1]
           Recurse(e, d) == [alg EXCEPT !.elements = e, !.distance = d,
                                        !.calls = @ + 1]
       IN  alg' =
             IF els = <<>> THEN Return(els)
             ELSE LET b == els[1]
                      l == Bezier_length(b)
                  IN  IF alg.distance > l
                      THEN Recurse(Tail(els), alg.distance - l)
                      ELSE LET t == Bezier_t_of_distance(b, alg.distance)
                           IN  IF IsZero(t) THEN Return(els)
                               ELSE IF IsOne(t) THEN Return(Tail(els))
                               ELSE Return([els EXCEPT ![1] = Bezier_between(b, t, One)])

\* One call of BezierPath::apply_relief(index, straightness, distance); the
\* call it ends with when it has removed a whole segment is the next step.
BezierPath_apply_relief ==
    /\ alg.op = "apply_relief" /\ ~alg.returned
    /\ LET els == alg.elements
           n == Len(els)
           Return(e) == [alg EXCEPT !.elements = e, !.returned = TRUE,
                                    !.calls = @ + 1]
           Recurse(e, d) == [alg EXCEPT !.elements = e, !.distance = d,
                                        !.calls = @ + 1]
       IN  alg' =
             IF els = <<>> THEN Return(els)
             ELSE IF alg.index = 0
             THEN LET b == els[1]
                      l == Bezier_length(b)
                  IN  IF alg.distance > l
                      THEN Recurse(Tail(els), alg.distance - l)
                      ELSE LET t == Bezier_t_of_distance(b, alg.distance)
                           IN  IF IsZero(t) THEN Return(els)
                               ELSE IF IsOne(t) THEN Return(Tail(els))
                               ELSE Return([els EXCEPT ![1] = Bezier_between(b, t, One)])
             ELSE LET b == els[n]
                      l == Bezier_length(b)
                  IN  IF alg.distance > l
                      THEN Recurse(Front(els), alg.distance - l)
                      ELSE LET t == Bezier_t_of_distance(b, l - alg.distance)
                           IN  IF IsZero(t) THEN Return(Front(els))
                               ELSE IF IsOne(t) THEN Return(els)
                               ELSE Return([els EXCEPT ![n] = Bezier_between(b, Zero, t)])

DoOfPoints ==
    /\ alg.op = "corners"
    /\ alg' = [op |-> "of_points", corners |-> alg.corners, rounding |-> alg.rounding,
               r |-> BezierPath_of_points(alg.corners, alg.rounding)]

InitChain ==
    /\ SvgInit([show_grid |-> FALSE, show_layout |-> FALSE,
                show_content_rectangles |-> <<>>])
    /\ ChainInit

NextChain ==
    /\ \/ DoRound
       \/ DoRoundAgain
       \/ BezierPath_apply_relief
       \/ DoOfPoints
    /\ UNCHANGED <<svgvars, panicked, itervars, flog>>

SpecChain == InitChain /\ [][NextChain]_vars

(***************************************************************************)
(* C22, C23, C24: round, apply_relief and of_points on chains              *)
(***************************************************************************)
IsCurve(b) == ~Bezier_is_line(b)

AllLines(p) == \A k \in 1..Len(p) : Bezier_is_line(p[k])

\* the segments k of p that are lines followed by a line, the last one
\* being followed by the first only when the path is closed
LinePairs(p, closed) ==
    {k \in 1..Len(p) : /\ k < Len(p) \/ closed
                       /\ Bezier_is_line(p[k])
                       /\ Bezier_is_line(p[(k % Len(p)) + 1])}

\* where segment k of p is found after a curve was inserted behind every
\* segment of S
PlaceOf(S, k) == k + Cardinality({i \in S : i < k})

\* C22: round changes only pairs of adjacent lines.  With fewer than two
\* segments or rounding 0 the path is unchanged; otherwise one curve is
\* inserted behind every line that is followed by a line, every curve of
\* the path and every line that belongs to no such pair is left identical,
\* a line keeps each end that is not at a rounded corner, and with closed
\* false the pair (last, first) is not rounded: the path keeps its first
\* start, its last end and its last segment stays last.  Rounding again the
\* result of rounding an all-lines closed path changes nothing.
C22_RoundFrame ==
    /\ alg.op = "round" =>
        LET p == alg.path
            r == alg.r
            n == Len(p)
            R == LinePairs(p, alg.closed)
            Prev(k) == IF k = 1 THEN n ELSE k - 1
        IN  IF n < 2 \/ alg.rounding = 0 THEN r = p
            ELSE /\ Len(r) = n + Cardinality(R)
                 /\ \A k \in 1..n :
                      LET s == r[PlaceOf(R, k)] IN
                      /\ IsCurve(p[k]) => s = p[k]
                      /\ (k \notin R /\ Prev(k) \notin R) => s = p[k]
                      /\ Bezier_is_line(p[k]) =>
                           /\ Bezier_is_line(s)
                           /\ k \notin R => s.p1 = p[k].p1
                           /\ Prev(k) \notin R => s.p0 = p[k].p0
                 /\ \A k \in R : IsCurve(r[PlaceOf(R, k) + 1])
                 /\ ~alg.closed =>
                      /\ PlaceOf(R, n) = Len(r)
                      /\ r[1].p0 = p[1].p0
                      /\ r[Len(r)].p1 = p[n].p1
    /\ (alg.op = "round.round" /\ alg.closed /\ AllLines(alg.path)) =>
            alg.r = alg.mid

C22_Witness ==
    /\ alg.op = "round"
    /\ ~alg.closed
    /\ alg.rounding # 0
    /\ Len(alg.path) = 6
    /\ IsCurve(alg.path[3])
    /\ Bezier_is_line(alg.path[6]) /\ Bezier_is_line(alg.path[1])
    /\ Len(alg.r) = 8

\* The last segment ends where the first one starts.
Wraps(r) == r # <<>> => r[Len(r)].p1 = r[1].p0

Reverse(s) == [k \in 1..Len(s) |-> s[Len(s) + 1 - k]]

\* the segments counted from the end that apply_relief(index, ..) treats
FromEnd(s, index) == IF index = 0 THEN s ELSE Reverse(s)

\* the end point of b that is on the side treated, and the other one
Near(b, index) == IF index = 0 THEN b.p0 ELSE b.p1

Far(b, index) == IF index = 0 THEN b.p1 ELSE b.p0

RECURSIVE LengthOfFirst(_, _)
LengthOfFirst(s, k) ==
    IF k = 0 THEN 0 ELSE Bezier_length(s[k]) + LengthOfFirst(s, k - 1)

\* What apply_relief(index, straightness, asked) has done to alg.path:
\* the K segments at the treated end whose lengths together are less than
\* `asked` are removed, one per call; the next one is removed when the
\* rest of `asked` is its whole length, trimmed on the treated side when
\* the rest is a part of its length, and, when nothing is left to remove,
\* removed if zeroDrops and kept as it is otherwise.
Relieved(zeroDrops) ==
    alg.op = "apply_relief" =>
        LET s == FromEnd(alg.path, alg.index)
            e == FromEnd(alg.elements, alg.index)
            n == Len(s)
            K == Cardinality({k \in 1..n : LengthOfFirst(s, k) < alg.asked})
        IN
        /\ alg.calls <= n + 1
        /\ Len(e) <= n
        /\ alg.path = <<>> => alg.elements = <<>>
        /\ Len(e) >= 1 => SubSeq(e, 2, Len(e)) = SubSeq(s, n - Len(e) + 2, n)
        /\ ~alg.returned =>
            /\ alg.calls <= K
            /\ e = SubSeq(s, alg.calls + 1, n)
            /\ alg.distance = alg.asked - LengthOfFirst(s, alg.calls)
        /\ alg.returned =>
            IF K = n THEN e = <<>> /\ alg.calls = n + 1
            ELSE LET rem  == alg.asked - LengthOfFirst(s, K)
                     seg  == s[K + 1]
                     rest == SubSeq(s, K + 2, n)
                 IN  /\ alg.calls = K + 1
                     /\ IF rem = Bezier_length(seg) \/ (zeroDrops /\ rem = 0)
                        THEN e = rest
                        ELSE IF rem = 0 THEN e = <<seg>> \o rest
                        ELSE /\ Len(e) = n - K
                             /\ Far(e[1], alg.index) = Far(seg, alg.index)
                             /\ Near(e[1], alg.index) # Near(seg, alg.index)
                             /\ Bezier_is_line(e[1]) = Bezier_is_line(seg)
                             /\ Bezier_length(e[1]) = Bezier_length(seg) - rem

Widened(b, v) ==
    [x |-> Range_new(b.x.min - v, b.x.max + v),
     y |-> Range_new(b.y.min - v, b.y.max + v)]

\* C25: for every non-empty box b and amount v, b.enlarge(v) is b widened
\* by v on all four sides and b.reduce(v) is b narrowed by v on all four
\* sides, its center kept.
C25_EnlargeWidensReduceNarrows ==
    /\ (alg.op = "BBox::enlarge" /\ ~BBox_is_none(alg.a)) =>
            alg.r = Widened(alg.a, alg.v)
    /\ (alg.op = "BBox::reduce" /\ ~BBox_is_none(alg.a)) =>
            /\ alg.r = Widened(alg.a, -alg.v)
            /\ alg.r.x.min + alg.r.x.max = alg.a.x.min + alg.a.x.max
            /\ alg.r.y.min + alg.r.y.max = alg.a.y.min + alg.a.y.max

RangeMoveOps ==
    {"Range::add", "Range::add_assign", "Range::sub", "Range::sub_assign",
     "Range::mul", "Range::mul_assign", "Range::div", "Range::div_assign"}

BBoxMoveOps ==
    {"BBox::add", "BBox::add_assign", "BBox::sub", "BBox::sub_assign",
     "BBox::mul", "BBox::mul_assign", "BBox::div", "BBox::div_assign"}

\* C29: an empty Range, the canonical {0, -1} or any other, stays empty
\* under +, -, *, / and +=, -=, *=, /=, for every offset and every factor
\* (negative factors, and 0 for multiplication, included); so does an
\* empty BBox.
C29_EmptyStaysEmpty ==
    /\ (alg.op \in RangeMoveOps /\ Range_is_none(alg.a.x)) => Range_is_none(alg.r)
    /\ (alg.op \in BBoxMoveOps /\ BBox_is_none(alg.a)) => BBox_is_none(alg.r)

(***************************************************************************)
(* C26: the stack of ElementIter                                           *)
(***************************************************************************)
RECURSIVE Depth(_, _), DepthOfAll(_, _)
\* the number of elements on the longest way down from x
Depth(h, x) == 1 + DepthOfAll(h, h[x].contents)

DepthOfAll(h, cs) ==
    IF cs = <<>> THEN 0
    ELSE LET d == Depth(h, Head(cs))
             e == DepthOfAll(h, Tail(cs))
         IN  IF d > e THEN d ELSE e

\* C26: between next() calls on an ElementIter over any tree the stack is
\* never empty, its bottom entry is the root, it is no longer than the
\* tree is deep, and of every two consecutive entries (p, n), (c, m) the
\* element c is the child of p at index n, with n less than the number of
\* children of p; no next() call aborts.
C26_StackInvariant ==
    /\ elements # <<>>
    /\ elements[1][1] = 1
    /\ Len(elements) <= Depth(heap, 1)
    /\ \A i \in 1..(Len(elements) - 1) :
        LET p == elements[i][1]
            n == elements[i][2]
        IN  /\ n < Len(heap[p].contents)
            /\ heap[p].contents[n + 1] = elements[i + 1][1]
    /\ panicked = ""
    /\ ret.kind # "unfinished"

C26_Witness ==
    /\ Len(elements) = 3
    /\ Depth(heap, 1) = 3
    /\ elements[1][2] = 1
    /\ elements[2][2] = 0
    /\ state = "FindNextElement"

(***************************************************************************)
(* C30: Polygon + Point, Polygon - Point                                   *)
(***************************************************************************)
\* q is p but for its center
SameButCenter(p, q) == q = [p EXCEPT !.center = q.center]

\* C30: for every polygon p and offset d, p + d has center p.center + d,
\* p - d has center p.center - d, (p + d) - d has the center of p, and
\* both operators leave every other field as it was.
C30_TranslateInverts ==
    /\ alg.op = "Polygon::add" =>
        /\ alg.r.center = <<alg.poly.center[1] + alg.d[1],
                            alg.poly.center[2] + alg.d[2]>>
        /\ SameButCenter(alg.poly, alg.r)
    /\ alg.op = "Polygon::add.sub" =>
        /\ alg.r.center = <<alg.mid.center[1] - alg.e[1],
                            alg.mid.center[2] - alg.e[2]>>
        /\ SameButCenter(alg.mid, alg.r)
        /\ alg.e = alg.d => alg.r = alg.poly

====
